---- MODULE Spec2Model ----
(***************************************************************************)
(* Provenance construction, publication and verification of the            *)
(* ai-proof-prototype repository: /api/summarize (construction),           *)
(* /api/publish, /api/verify-provenance, the mock content-addressed store  *)
(* of api/ipfs.ts and the discovery index of api/indexStore.ts.            *)
(*                                                                         *)
(* JavaScript values are tagged records ([t |-> "undef"], [t |-> "str"..]) *)
(* so that a missing field, an empty string and a populated value stay     *)
(* distinct, as they are for the truthiness tests and method calls of the  *)
(* handlers.  Text is a sequence of code points, a blob a sequence of      *)
(* bytes; SHA-256 is modelled as collision free (the digest carries the    *)
(* hashed bytes), the 32-bit mock CID hash is computed exactly.            *)
(***************************************************************************)
EXTENDS Integers, Sequences, FiniteSets, TLC

\* ------------------------------------------------------------------------
\* Bounds of the model
\* ------------------------------------------------------------------------
\* number of times the store is made to answer with other bytes
MaxTampers == 1

\* publishes in a row in the specification of the index
MaxPublishes == 3

\* ------------------------------------------------------------------------
\* JavaScript values
\* ------------------------------------------------------------------------
Undef == [t |-> "undef"]

StrV(s) == [t |-> "str", s |-> s]

NumV(n) == [t |-> "num", n |-> n]

\* a JavaScript string holding free text, as a sequence of code points
TextV(s) == [t |-> "text", cp |-> s]

\* JavaScript truthiness of a value: undefined, "" and 0 are falsy
Truthy(v) == /\ "t" \in DOMAIN v => v.t # "undef"
             /\ v # StrV("")
             /\ v # TextV(<<>>)
             /\ v # NumV(0)

\* the value has the methods of a string
IsString(v) == v.t \in {"str", "text", "hex", "addr", "sig", "cid", "hexstr"}

\* elements of a sequence
Range(seq) == {seq[i] : i \in 1..Len(seq)}

\* ------------------------------------------------------------------------
\* Text and bytes
\* ------------------------------------------------------------------------
\* U+FEFF, the byte order mark
BomText == <<65279>>

\* Buffer.from(str) / TextEncoder: UTF-8 bytes of a sequence of code points
RECURSIVE Utf8Encode(_)
Utf8Encode(text) ==
    IF text = <<>> THEN <<>>
    ELSE LET c == Head(text)
             enc == IF c < 128 THEN <<c>>
                    ELSE IF <<c>> = BomText THEN <<239, 187, 191>>
                    ELSE <<239, 191, 189>>
         IN  enc \o Utf8Encode(Tail(text))

RECURSIVE Utf8DecodeBody(_)
Utf8DecodeBody(bytes) ==
    IF bytes = <<>> THEN <<>>
    ELSE IF Head(bytes) < 128 THEN <<Head(bytes)>> \o Utf8DecodeBody(Tail(bytes))
    ELSE IF Len(bytes) >= 3 /\ SubSeq(bytes, 1, 3) = <<239, 187, 191>>
         THEN BomText \o Utf8DecodeBody(SubSeq(bytes, 4, Len(bytes)))
    ELSE IF Len(bytes) >= 3 /\ SubSeq(bytes, 1, 3) = <<239, 191, 189>>
         THEN <<65533>> \o Utf8DecodeBody(SubSeq(bytes, 4, Len(bytes)))
    ELSE <<65533>> \o Utf8DecodeBody(Tail(bytes))

\* new TextDecoder().decode(bytes): utf-8, fatal = false, ignoreBOM = false,
\* so a leading byte order mark is removed and an ill-formed byte becomes
\* U+FFFD
TextDecode(bytes) ==
    IF Len(bytes) >= 3 /\ SubSeq(bytes, 1, 3) = <<239, 187, 191>>
    THEN Utf8DecodeBody(SubSeq(bytes, 4, Len(bytes)))
    ELSE Utf8DecodeBody(bytes)

\* String.prototype.trim() leaves nothing: only white space (BOM included)
IsBlank(text) == \A i \in 1..Len(text) : text[i] \in {32, 10} \cup Range(BomText)

\* ------------------------------------------------------------------------
\* Hashes
\* ------------------------------------------------------------------------
ZERO_HASH == [t |-> "hex", zero |-> TRUE, d |-> <<>>, uc |-> FALSE]

\* '0x' + sha256(bytes) in lowercase hex
Sha256Bytes(bytes) == [t |-> "hex", zero |-> FALSE, d |-> bytes, uc |-> FALSE]

sha256Hex(text) == Sha256Bytes(Utf8Encode(text))

\* String.prototype.toLowerCase() on a hash or address string
ToLowerCase(v) == IF "uc" \in DOMAIN v THEN [v EXCEPT !.uc = FALSE] ELSE v

\* the same hex digits written in upper case
ToUpperCase(v) == IF "uc" \in DOMAIN v /\ v # ZERO_HASH THEN [v EXCEPT !.uc = TRUE] ELSE v

\* ------------------------------------------------------------------------
\* Content-addressed store (mock mode of api/ipfs.ts)
\* ------------------------------------------------------------------------
\* the 32-bit hash is kept as two 16-bit halves <<hi, lo>> of its unsigned
\* value
\* hash = ((hash << 5) - hash + c) & 0xffffffff
HashStep(h, c) ==
    LET lo == 31 * h[2] + c
    IN  <<(31 * h[1] + (lo \div 65536)) % 65536, lo % 65536>>

RECURSIVE MockHash(_, _)
MockHash(h, content) ==
    IF content = <<>> THEN h
    ELSE MockHash(HashStep(h, Head(content)), Tail(content))

\* Math.abs of the signed 32-bit value, again as halves
Abs(h) ==
    IF h[1] < 32768 THEN h
    ELSE <<65535 - h[1] + (IF h[2] = 0 THEN 1 ELSE 0), (65536 - h[2]) % 65536>>

\* a stored blob is raw bytes or the UTF-8 text of a JSON document; the
\* serialisation of a JSON document is kept symbolic
RawBlob(bytes) == [t |-> "raw", b |-> bytes]

JsonBlob(doc) == [t |-> "json", v |-> doc]

\* identifier of a blob: Qm + base 36 of |hash|; the hash of a JSON text is
\* taken to be collision free
computeMockCid(blob) ==
    IF blob.t = "raw" THEN [t |-> "cid", h |-> Abs(MockHash(<<0, 0>>, blob.b))]
    ELSE [t |-> "cid", j |-> blob.v]

\* mockStore.set(cid, bytes)
StorePut(st, blob) == [c \in DOMAIN st \cup {computeMockCid(blob)} |->
                          IF c = computeMockCid(blob) THEN blob ELSE st[c]]

\* getFile: "ok" with the blob, or a thrown error
getFile(st, cid) == IF cid \in DOMAIN st THEN [ok |-> TRUE, blob |-> st[cid]]
                    ELSE [ok |-> FALSE]

\* bytes of a blob as TextDecoder sees them; a JSON text is never equal to
\* the text of one of the raw blobs of the model
BlobText(blob) == IF blob.t = "raw" THEN TextDecode(blob.b) ELSE <<0>>

\* getJson = getFile + JSON.parse: raw blobs of the model are not JSON
getJson(st, cid) ==
    IF cid \in DOMAIN st /\ st[cid].t = "json" THEN [ok |-> TRUE, v |-> st[cid].v]
    ELSE [ok |-> FALSE]

\* property access on a parsed JSON object
Field(obj, name) == IF name \in DOMAIN obj THEN obj[name] ELSE Undef

\* ------------------------------------------------------------------------
\* EIP-712 typed data (api/types.ts) and signatures
\* ------------------------------------------------------------------------
domain == [name |-> "AIProof", version |-> "1", chainId |-> 1]

ContentProvenanceType ==
    << <<"version", "uint8">>, <<"modelId", "string">>, <<"modelHash", "string">>,
       <<"promptHash", "bytes32">>, <<"outputHash", "bytes32">>,
       <<"paramsHash", "bytes32">>, <<"contentCid", "string">>,
       <<"timestamp", "uint256">>, <<"attestationStrategy", "string">>,
       <<"keywordsHash", "bytes32">>, <<"programHash", "bytes32">>,
       <<"journalCid", "string">>, <<"proofCid", "string">> >>

SaveProofType ==
    << <<"cid", "string">>, <<"modelHash", "string">>, <<"timestamp", "string">> >>

types == [SaveProof |-> SaveProofType, ContentProvenance |-> ContentProvenanceType]

prunedTypes == [ContentProvenance |-> ContentProvenanceType]

\* does a value fit the wire type of a struct member (the encoder throws
\* otherwise)
WireOk(wire, v) ==
    CASE wire = "uint8"   -> v.t = "num" /\ v.n >= 0 /\ v.n < 256
      [] wire = "uint256" -> v.t = "num" /\ v.n >= 0
      [] wire = "string"  -> v.t \in {"str", "cid", "text"}
      [] wire = "bytes32" -> v.t = "hex"
      [] OTHER            -> FALSE

\* TypedDataEncoder.hash(domain, types, value): fails when the type set does
\* not have exactly one root struct or a member does not fit its wire type;
\* otherwise the digest commits to the domain, the member order and the
\* encoded members (bytes32 members are encoded as bytes, so the case of
\* their hex digits is lost)
TypedDataHash(dom, tps, value) ==
    IF dom.t # "obj" \/ tps.t # "obj" THEN [ok |-> FALSE]
    ELSE IF DOMAIN tps.v # {"ContentProvenance"} THEN [ok |-> FALSE]
    ELSE LET members == tps.v.ContentProvenance
         IN  IF \E i \in 1..Len(members) :
                    ~WireOk(members[i][2], Field(value, members[i][1]))
             THEN [ok |-> FALSE]
             ELSE [ok |-> TRUE,
                   h  |-> [dom |-> dom.v,
                           members |-> members,
                           vals |-> [i \in 1..Len(members) |->
                                       ToLowerCase(Field(value, members[i][1]))]]]

\* a JSON object value (domain, types)
ObjV(v) == [t |-> "obj", v |-> v]

Keys == {"k1", "k2"}

\* address of a key, in checksum case (uc) as wallets and ethers print it
AddressOf(k) == [t |-> "addr", id |-> k, uc |-> TRUE]

\* a well-formed 65-byte signature made with key k over digest h
SigV(k, h) == [t |-> "sig", k |-> k, h |-> h]

\* what a wallet returns for signTypedData(domain, types, message)
signTypedData(k, dom, tps, value) == SigV(k, TypedDataHash(dom, tps, value).h)

\* ethers verifyTypedData(domain, types, value, signature): throws on an
\* unencodable value or a malformed signature; otherwise returns the
\* recovered address, which is the signing key's address only when the
\* signature was made over this very digest
verifyTypedData(dom, tps, value, signature) ==
    LET th == TypedDataHash(dom, tps, value)
    IN  IF ~th.ok \/ signature.t # "sig" THEN [ok |-> FALSE]
        ELSE IF signature.h = th.h THEN [ok |-> TRUE, addr |-> AddressOf(signature.k)]
        ELSE [ok |-> TRUE, addr |-> [t |-> "addr", id |-> "unrelated", uc |-> TRUE]]

\* ------------------------------------------------------------------------
\* Keyword lists
\* ------------------------------------------------------------------------
ListV(items) == [t |-> "list", items |-> items]

\* JSON.stringify of a keyword list [{word, count}, ...], as bytes
RECURSIVE KeywordsJson(_)
KeywordsJson(items) ==
    IF items = <<>> THEN <<>>
    ELSE <<123>> \o Utf8Encode(Head(items).word) \o <<58, 48 + Head(items).count, 125>>
         \o KeywordsJson(Tail(items))

\* sha256 over JSON.stringify(keywords)
KeywordsHash(kws) ==
    IF kws.t = "list" THEN Sha256Bytes(<<91>> \o KeywordsJson(kws.items) \o <<93>>)
    ELSE Sha256Bytes(<<110>>)

\* ------------------------------------------------------------------------
\* /api/verify-provenance
\* ------------------------------------------------------------------------
\* String.prototype.startsWith('zk') on the attestation strategy
StartsWithZk(v) == v.t = "str" /\ v.s \in {"zk-keywords", "zk-keywords-mock"}

Append2(seq, cond, x) == IF cond THEN Append(seq, x) ELSE seq

\* for (const f of must) if (!prov[f]) issues.push(`missing_${f}`)
StructuralIssues(prov) ==
    LET i1 == Append2(<<>>, ~Truthy(Field(prov, "promptHash")), "missing_promptHash")
        i2 == Append2(i1, ~Truthy(Field(prov, "outputHash")), "missing_outputHash")
        i3 == Append2(i2, ~Truthy(Field(prov, "paramsHash")), "missing_paramsHash")
    IN  Append2(i3, ~Truthy(Field(prov, "contentCid")), "missing_contentCid")

\* (x || '')
OrEmpty(v) == IF Truthy(v) THEN v ELSE StrV("")

\* variant: an absent signature goes through recovery like any other value
SignatureCheck_NoMissing(envelope, prov) ==
    LET signature == Field(envelope, "signature")
        claimedSigner == Field(envelope, "signer")
        dom == IF Truthy(Field(envelope, "domain")) THEN Field(envelope, "domain") ELSE ObjV(domain)
        tps == IF Truthy(Field(envelope, "types")) THEN Field(envelope, "types") ELSE ObjV(types)
        rec == verifyTypedData(dom, tps, prov, signature)
    IN  IF ~rec.ok THEN [issue |-> "signature_invalid", recoveredSigner |-> Undef]
        ELSE IF Truthy(claimedSigner) /\ ToLowerCase(rec.addr) # ToLowerCase(claimedSigner)
             THEN [issue |-> "signature_recover_mismatch", recoveredSigner |-> rec.addr]
        ELSE [issue |-> "", recoveredSigner |-> rec.addr]

\* variant: the recovered signer is reported but not compared
SignatureCheck_NoCompare(envelope, prov) ==
    LET signature == Field(envelope, "signature")
        dom == IF Truthy(Field(envelope, "domain")) THEN Field(envelope, "domain") ELSE ObjV(domain)
        tps == IF Truthy(Field(envelope, "types")) THEN Field(envelope, "types") ELSE ObjV(types)
        rec == verifyTypedData(dom, tps, prov, signature)
    IN  IF ~Truthy(signature) THEN [issue |-> "missing_signature", recoveredSigner |-> Undef]
        ELSE IF ~rec.ok THEN [issue |-> "signature_invalid", recoveredSigner |-> Undef]
        ELSE [issue |-> "", recoveredSigner |-> rec.addr]

\* the signature recovery block: the issue it pushes (or "") and the
\* recovered signer
SignatureCheck(envelope, prov) ==
    LET signature == Field(envelope, "signature")
        claimedSigner == Field(envelope, "signer")
        dom == IF Truthy(Field(envelope, "domain")) THEN Field(envelope, "domain") ELSE ObjV(domain)
        tps == IF Truthy(Field(envelope, "types")) THEN Field(envelope, "types") ELSE ObjV(types)
        rec == verifyTypedData(dom, tps, prov, signature)
    IN  IF ~Truthy(signature) THEN [issue |-> "missing_signature", recoveredSigner |-> Undef]
        ELSE IF ~rec.ok THEN [issue |-> "signature_invalid", recoveredSigner |-> Undef]
        ELSE IF Truthy(claimedSigner) /\ ToLowerCase(rec.addr) # ToLowerCase(claimedSigner)
             THEN [issue |-> "signature_recover_mismatch", recoveredSigner |-> rec.addr]
        ELSE [issue |-> "", recoveredSigner |-> rec.addr]

\* the statements of the includeContent try block, one operator per
\* artifact; each takes and returns the accumulated
\* [issues, warnings, thrown, out, prm, kw] and does nothing once an
\* exception was thrown
\* variant: the recomputed digest is not compared with outputHash
DeepContent_NoCompare(st, prov, a) ==
    IF a.thrown \/ ~Truthy(Field(prov, "contentCid")) THEN a
    ELSE LET f == getFile(st, Field(prov, "contentCid"))
         IN  IF ~f.ok THEN [a EXCEPT !.thrown = TRUE]
             ELSE LET recomputed == sha256Hex(BlobText(f.blob))
                  IN  IF Field(prov, "outputHash").t = "undef"
                      THEN [a EXCEPT !.thrown = TRUE, !.out = recomputed]
                      ELSE [a EXCEPT !.out = recomputed]

DeepContent(st, prov, a) ==
    IF a.thrown \/ ~Truthy(Field(prov, "contentCid")) THEN a
    ELSE LET f == getFile(st, Field(prov, "contentCid"))
         IN  IF ~f.ok THEN [a EXCEPT !.thrown = TRUE]
             ELSE LET recomputed == sha256Hex(BlobText(f.blob))
                  IN  IF Field(prov, "outputHash").t = "undef"
                      THEN [a EXCEPT !.thrown = TRUE, !.out = recomputed]
                      ELSE [a EXCEPT !.out = recomputed,
                                     !.issues = Append2(@, ToLowerCase(recomputed) #
                                                   ToLowerCase(Field(prov, "outputHash")),
                                                   "output_hash_mismatch")]

DeepPrompt(st, envelope, prov, a) ==
    IF a.thrown \/ ~Truthy(Field(envelope, "promptCid")) THEN a
    ELSE LET f == getFile(st, Field(envelope, "promptCid"))
         IN  IF ~f.ok THEN [a EXCEPT !.thrown = TRUE]
             ELSE LET recomputed == sha256Hex(BlobText(f.blob))
                  IN  IF Field(prov, "promptHash").t = "undef"
                      THEN [a EXCEPT !.thrown = TRUE, !.prm = recomputed]
                      ELSE [a EXCEPT !.prm = recomputed,
                                     !.issues = Append2(@, ToLowerCase(recomputed) #
                                                   ToLowerCase(Field(prov, "promptHash")),
                                                   "stored_prompt_hash_mismatch")]

DeepJournal(st, prov, a) ==
    IF a.thrown THEN a
    ELSE IF /\ Truthy(Field(prov, "journalCid"))
            /\ Truthy(Field(prov, "keywordsHash"))
            /\ Field(prov, "keywordsHash") # ZERO_HASH
    THEN LET j == getJson(st, Field(prov, "journalCid"))
         IN  IF ~j.ok THEN [a EXCEPT !.issues = Append(@, "journal_fetch_failed")]
             ELSE IF Truthy(Field(j.v, "keywords"))
             THEN LET recomputed == KeywordsHash(Field(j.v, "keywords"))
                  IN  [a EXCEPT !.kw = recomputed,
                                !.issues = Append2(@, ToLowerCase(recomputed) #
                                              ToLowerCase(Field(prov, "keywordsHash")),
                                              "keywords_hash_mismatch")]
             ELSE [a EXCEPT !.issues = Append(@, "journal_missing_keywords")]
    ELSE IF Field(prov, "attestationStrategy").t = "undef" THEN [a EXCEPT !.thrown = TRUE]
    ELSE [a EXCEPT !.warnings =
             Append2(@, /\ StartsWithZk(Field(prov, "attestationStrategy"))
                        /\ \/ ~Truthy(Field(prov, "keywordsHash"))
                           \/ Field(prov, "keywordsHash") = ZERO_HASH,
                     "zk_keywords_not_bound")]

DeepProof(prov, a) ==
    IF a.thrown THEN a
    ELSE [a EXCEPT !.warnings = Append2(@, Truthy(Field(prov, "proofCid")), "proof_unverified")]

\* the whole try { ... } catch { warnings.push('content_fetch_failed') }
DeepChecks(st, envelope, prov, a) ==
    LET r == DeepProof(prov, DeepJournal(st, prov,
                 DeepPrompt(st, envelope, prov, DeepContent(st, prov, a))))
    IN  IF r.thrown THEN [r EXCEPT !.warnings = Append(@, "content_fetch_failed")] ELSE r

ErrorResponse(status) == [kind |-> "error", status |-> status]

\* variant: a report is ok only when nothing at all was noted
ReportOk_NoWarnings(issues, warnings) == Len(issues) = 0 /\ Len(warnings) = 0

\* const ok = issues.length === 0
ReportOk(issues, warnings) == Len(issues) = 0

\* variant: the supplied prompt is compared with the output digest
PromptBad_OutputHash(body, prov) ==
    /\ Truthy(body.prompt)
    /\ ToLowerCase(sha256Hex(body.prompt.cp)) # ToLowerCase(OrEmpty(Field(prov, "outputHash")))

\* if (body.prompt) { recomputed !== (prov.promptHash || '') }
PromptBad(body, prov) ==
    /\ Truthy(body.prompt)
    /\ ToLowerCase(sha256Hex(body.prompt.cp)) # ToLowerCase(OrEmpty(Field(prov, "promptHash")))

\* variant: only a missing keywordsHash counts, not the zero sentinel
KeywordsExpectedMissing_NoSentinel(body, prov) ==
    body.expectKeywords /\ ~Truthy(Field(prov, "keywordsHash"))

\* body.expectKeywords && (!prov.keywordsHash || prov.keywordsHash === ZERO_HASH)
KeywordsExpectedMissing(body, prov) ==
    /\ body.expectKeywords
    /\ \/ ~Truthy(Field(prov, "keywordsHash"))
       \/ Field(prov, "keywordsHash") = ZERO_HASH

\* variant: the deep checks read the journal and the proof of the overrides
VerifyProvenance_OverridesChecked(st, body) ==
    IF ~Truthy(body.signedProvenanceCid) THEN ErrorResponse(400)
    ELSE LET ej == getJson(st, body.signedProvenanceCid)
         IN
    IF ~ej.ok THEN ErrorResponse(500)
    ELSE IF ~Truthy(Field(ej.v, "provenance")) THEN ErrorResponse(400)
    ELSE LET envelope == ej.v
             prov == envelope.provenance
             i0 == StructuralIssues(prov)
             i1 == Append2(i0, PromptBad(body, prov), "prompt_hash_mismatch")
             w1 == Append2(<<>>, ~Truthy(body.prompt), "no_prompt_supplied")
             i2 == Append2(i1, KeywordsExpectedMissing(body, prov),
                           "expected_keywords_missing")
             effectiveJournalCid == IF Truthy(body.journalCid) THEN body.journalCid
                                    ELSE OrEmpty(Field(prov, "journalCid"))
             effectiveProofCid == IF Truthy(body.proofCid) THEN body.proofCid
                                  ELSE OrEmpty(Field(prov, "proofCid"))
             w2 == Append2(w1, Truthy(body.journalCid) /\ body.journalCid # Field(prov, "journalCid"),
                           "journalCid_override_used")
             w3 == Append2(w2, Truthy(body.proofCid) /\ body.proofCid # Field(prov, "proofCid"),
                           "proofCid_override_used")
             programHashBound == /\ Truthy(Field(prov, "programHash"))
                                 /\ Field(prov, "programHash") # ZERO_HASH
         IN
    \* prov.attestationStrategy.startsWith on a missing field is a TypeError
    \* outside the inner try blocks: the handler answers 500
    IF ~programHashBound /\ Field(prov, "attestationStrategy").t = "undef"
    THEN ErrorResponse(500)
    ELSE LET w4 == Append2(w3, ~programHashBound /\ StartsWithZk(Field(prov, "attestationStrategy")),
                           "program_hash_not_bound")
             sc == SignatureCheck(envelope, prov)
             i3 == Append2(i2, sc.issue # "", sc.issue)
             a0 == [issues |-> i3, warnings |-> w4, thrown |-> FALSE,
                    out |-> Undef, prm |-> Undef, kw |-> Undef]
             a1 == IF body.includeContent
                   THEN DeepChecks(st, envelope,
                                   [prov EXCEPT !.journalCid = effectiveJournalCid,
                                                !.proofCid = effectiveProofCid], a0)
                   ELSE a0
         IN  [kind |-> "report",
              ok |-> ReportOk(a1.issues, a1.warnings),
              issues |-> a1.issues,
              warnings |-> a1.warnings,
              signer |-> Field(envelope, "signer"),
              recoveredSigner |-> sc.recoveredSigner,
              journalCid |-> effectiveJournalCid,
              proofCid |-> effectiveProofCid,
              recomputed |-> [outputHash |-> a1.out, promptHash |-> a1.prm,
                              keywordsHash |-> a1.kw]]

\* POST of verify-provenance: a report, or an error response
VerifyProvenance(st, body) ==
    IF ~Truthy(body.signedProvenanceCid) THEN ErrorResponse(400)
    ELSE LET ej == getJson(st, body.signedProvenanceCid)
         IN
    IF ~ej.ok THEN ErrorResponse(500)
    ELSE IF ~Truthy(Field(ej.v, "provenance")) THEN ErrorResponse(400)
    ELSE LET envelope == ej.v
             prov == envelope.provenance
             i0 == StructuralIssues(prov)
             i1 == Append2(i0, PromptBad(body, prov), "prompt_hash_mismatch")
             w1 == Append2(<<>>, ~Truthy(body.prompt), "no_prompt_supplied")
             i2 == Append2(i1, KeywordsExpectedMissing(body, prov),
                           "expected_keywords_missing")
             effectiveJournalCid == IF Truthy(body.journalCid) THEN body.journalCid
                                    ELSE OrEmpty(Field(prov, "journalCid"))
             effectiveProofCid == IF Truthy(body.proofCid) THEN body.proofCid
                                  ELSE OrEmpty(Field(prov, "proofCid"))
             w2 == Append2(w1, Truthy(body.journalCid) /\ body.journalCid # Field(prov, "journalCid"),
                           "journalCid_override_used")
             w3 == Append2(w2, Truthy(body.proofCid) /\ body.proofCid # Field(prov, "proofCid"),
                           "proofCid_override_used")
             programHashBound == /\ Truthy(Field(prov, "programHash"))
                                 /\ Field(prov, "programHash") # ZERO_HASH
         IN
    \* prov.attestationStrategy.startsWith on a missing field is a TypeError
    \* outside the inner try blocks: the handler answers 500
    IF ~programHashBound /\ Field(prov, "attestationStrategy").t = "undef"
    THEN ErrorResponse(500)
    ELSE LET w4 == Append2(w3, ~programHashBound /\ StartsWithZk(Field(prov, "attestationStrategy")),
                           "program_hash_not_bound")
             sc == SignatureCheck(envelope, prov)
             i3 == Append2(i2, sc.issue # "", sc.issue)
             a0 == [issues |-> i3, warnings |-> w4, thrown |-> FALSE,
                    out |-> Undef, prm |-> Undef, kw |-> Undef]
             a1 == IF body.includeContent THEN DeepChecks(st, envelope, prov, a0) ELSE a0
         IN  [kind |-> "report",
              ok |-> ReportOk(a1.issues, a1.warnings),
              issues |-> a1.issues,
              warnings |-> a1.warnings,
              signer |-> Field(envelope, "signer"),
              recoveredSigner |-> sc.recoveredSigner,
              journalCid |-> effectiveJournalCid,
              proofCid |-> effectiveProofCid,
              recomputed |-> [outputHash |-> a1.out, promptHash |-> a1.prm,
                              keywordsHash |-> a1.kw]]

\* ------------------------------------------------------------------------
\* /api/verify-local
\* ------------------------------------------------------------------------
\* viem verifyTypedData({address, domain, types, message, signature}):
\* throws on a signer that is no address, an unencodable message or a
\* malformed signature; otherwise tells whether the recovered address is
\* the given one, whatever the case of its letters
viemVerifyTypedData(address, dom, tps, message, signature) ==
    LET rec == verifyTypedData(dom, tps, message, signature)
    IN  IF address.t # "addr" \/ ~rec.ok THEN [threw |-> TRUE, valid |-> FALSE]
        ELSE [threw |-> FALSE, valid |-> ToLowerCase(rec.addr) = ToLowerCase(address)]

\* signature.startsWith('0xtest_')
StartsWithTest(signature) == signature = StrV("0xtest_signature_123")

\* the response once the envelope was fetched and has its four members
LocalReport(st, body, signedProvenance) ==
    LET prov == signedProvenance.provenance
        signature == signedProvenance.signature
        check == IF ~IsString(signature)
                 THEN [threw |-> TRUE, valid |-> FALSE]
                 ELSE IF StartsWithTest(signature) THEN [threw |-> FALSE, valid |-> TRUE]
                 ELSE viemVerifyTypedData(Field(signedProvenance, "signer"),
                                          signedProvenance.domain, signedProvenance.types,
                                          prov, signature)
        content == IF Truthy(Field(prov, "contentCid"))
                   THEN getFile(st, Field(prov, "contentCid")) ELSE [ok |-> FALSE]
        prompt == IF body.includeContent /\ Truthy(Field(signedProvenance, "promptCid"))
                  THEN getFile(st, Field(signedProvenance, "promptCid")) ELSE [ok |-> FALSE]
    IN  [kind |-> "local",
         ok |-> TRUE,
         issues |-> IF check.valid THEN <<>> ELSE <<"signature_invalid">>,
         warnings |-> <<>>,
         provenance |-> prov,
         signer |-> Field(signedProvenance, "signer"),
         signature |-> signature,
         outputContent |-> IF content.ok /\ body.includeContent
                           THEN TextV(BlobText(content.blob)) ELSE Undef,
         originalPrompt |-> IF prompt.ok THEN TextV(BlobText(prompt.blob)) ELSE Undef,
         success |-> TRUE,
         signatureValid |-> check.valid,
         contentVerified |-> content.ok,
         signatureError |-> check.threw]

\* variant: a signature that does not verify ends the request in an error
VerifyLocalPOST_Strict(st, body) ==
    IF ~Truthy(body.signedProvenanceCid) THEN ErrorResponse(400)
    ELSE LET ej == getJson(st, body.signedProvenanceCid) IN
    IF ~ej.ok THEN ErrorResponse(404)
    ELSE IF \E f \in {"signature", "domain", "types", "provenance"} : ~Truthy(Field(ej.v, f))
    THEN ErrorResponse(400)
    ELSE IF ~LocalReport(st, body, ej.v).signatureValid THEN ErrorResponse(500)
    ELSE LocalReport(st, body, ej.v)

\* POST of verify-local
VerifyLocalPOST(st, body) ==
    IF ~Truthy(body.signedProvenanceCid) THEN ErrorResponse(400)
    ELSE LET ej == getJson(st, body.signedProvenanceCid) IN
    IF ~ej.ok THEN ErrorResponse(404)
    ELSE IF \E f \in {"signature", "domain", "types", "provenance"} : ~Truthy(Field(ej.v, f))
    THEN ErrorResponse(400)
    ELSE LocalReport(st, body, ej.v)

\* ------------------------------------------------------------------------
\* Keyword extraction (mock provider and mock attestation)
\* ------------------------------------------------------------------------
IsWordChar(c) == c \in (48..57) \cup (65..90) \cup (97..122) \cup {95}

LowerCp(c) == IF c \in 65..90 THEN c + 32 ELSE c

\* text.toLowerCase().split(/\W+/).filter(w => w.length > 3)
RECURSIVE SplitWords(_, _, _)
SplitWords(text, cur, acc) ==
    LET flushed == IF Len(cur) > 3 THEN Append(acc, cur) ELSE acc
    IN  IF text = <<>> THEN flushed
        ELSE IF IsWordChar(Head(text))
             THEN SplitWords(Tail(text), Append(cur, LowerCp(Head(text))), acc)
             ELSE SplitWords(Tail(text), <<>>, flushed)

\* counts[w] = (counts[w] || 0) + 1, entries in first-seen order
RECURSIVE CountWords(_, _)
CountWords(words, acc) ==
    IF words = <<>> THEN acc
    ELSE LET w == Head(words)
             seen == \E i \in 1..Len(acc) : acc[i].word = w
         IN  CountWords(Tail(words),
                 IF seen
                 THEN [i \in 1..Len(acc) |->
                         IF acc[i].word = w THEN [acc[i] EXCEPT !.count = @ + 1] ELSE acc[i]]
                 ELSE Append(acc, [word |-> w, count |-> 1]))

\* stable sort, descending by count
RECURSIVE SortByCount(_)
SortByCount(items) ==
    IF items = <<>> THEN <<>>
    ELSE LET m == CHOOSE i \in 1..Len(items) :
                     /\ \A j \in 1..Len(items) : items[j].count <= items[i].count
                     /\ \A j \in 1..(i - 1) : items[j].count < items[i].count
         IN  <<items[m]>> \o SortByCount(SubSeq(items, 1, m - 1) \o SubSeq(items, m + 1, Len(items)))

Take(seq, n) == SubSeq(seq, 1, IF Len(seq) < n THEN Len(seq) ELSE n)

TopKeywords(text, n) == Take(SortByCount(CountWords(SplitWords(text, <<>>, <<>>), <<>>)), n)

\* words.join(', ')
RECURSIVE JoinWords(_)
JoinWords(items) ==
    IF items = <<>> THEN <<>>
    ELSE IF Len(items) = 1 THEN items[1].word
    ELSE items[1].word \o <<44, 32>> \o JoinWords(Tail(items))

\* "Key topics: "
KeyTopics == <<75, 101, 121, 32, 116, 111, 112, 105, 99, 115, 58, 32>>

\* summarizeMock of api/providers.ts
summarizeMock(text) ==
    [summary |-> KeyTopics \o JoinWords(TopKeywords(text, 5)),
     model |-> StrV("mock-local"),
     modelHash |-> StrV("sha256(mock-local)")]

\* summarizeWithProvider: the mock provider is computed, any other provider
\* is the external answer `ext` ([ok, summary, model, modelHash])
summarizeWithProvider(provider, text, ext) ==
    IF provider = "mock" THEN [ok |-> TRUE, data |-> summarizeMock(text)]
    ELSE IF ext.ok THEN [ok |-> TRUE, data |-> [summary |-> ext.summary, model |-> ext.model,
                                              modelHash |-> ext.modelHash]]
    ELSE [ok |-> FALSE]

\* "mock_program_v1" and "mock-proof"
MockProgramText == <<109, 111, 99, 107, 95, 112, 114, 111, 103, 114, 97, 109, 95, 118, 49>>

MockProofBytes == <<109, 111, 99, 107, 45, 112, 114, 111, 111, 102>>

\* generateMockJournal of the summarize route
generateMockJournal(input) ==
    LET keywords == ListV(TopKeywords(input, 10))
        programHash == sha256Hex(MockProgramText)
    IN  [keywords |-> keywords,
         programHash |-> programHash,
         journalData |-> [keywords |-> keywords, programHash |-> programHash,
                          inputHash |-> sha256Hex(input),
                          outputHash |-> KeywordsHash(keywords)]]

\* ------------------------------------------------------------------------
\* Parameter canonicalisation and program hash normalisation
\* ------------------------------------------------------------------------
\* parameter names, numbered in their lexicographic order
P_frequency_penalty == 0

P_max_tokens == 1

P_temperature == 2

P_top_p == 3

\* { ...a, ...b } on objects given as sequences of <<key, value>> in
\* insertion order: later values win, a key keeps its first position
RECURSIVE Spread(_, _)
Spread(a, b) ==
    IF b = <<>> THEN a
    ELSE LET kv == Head(b)
             has == \E i \in 1..Len(a) : a[i][1] = kv[1]
         IN  Spread(IF has THEN [i \in 1..Len(a) |-> IF a[i][1] = kv[1] THEN kv ELSE a[i]]
                    ELSE Append(a, kv),
                    Tail(b))

\* Object.keys(base).sort() and rebuild
RECURSIVE SortByKey(_)
SortByKey(obj) ==
    IF obj = <<>> THEN <<>>
    ELSE LET m == CHOOSE i \in 1..Len(obj) : \A j \in 1..Len(obj) : obj[i][1] <= obj[j][1]
         IN  <<obj[m]>> \o SortByKey(SubSeq(obj, 1, m - 1) \o SubSeq(obj, m + 1, Len(obj)))

\* variant: the defaults are spread but the keys are not sorted
canonicalizeParams_NoSort(p) ==
    Spread(<< <<P_temperature, 0>>, <<P_top_p, 1>> >>, IF p.t = "undef" THEN <<>> ELSE p.kv)

canonicalizeParams(p) ==
    SortByKey(Spread(<< <<P_temperature, 0>>, <<P_top_p, 1>> >>, IF p.t = "undef" THEN <<>> ELSE p.kv))

\* JSON.stringify of a flat object, as bytes
RECURSIVE ObjectJson(_)
ObjectJson(obj) ==
    IF obj = <<>> THEN <<>>
    ELSE <<34, Head(obj)[1], 58, Head(obj)[2], 44>> \o ObjectJson(Tail(obj))

ParamsHash(p) == Sha256Bytes(<<123>> \o ObjectJson(canonicalizeParams(p)) \o <<125>>)

\* a hex string with an optional prefix, as a journal's programHash spells
\* it: pre is "", "0x" or "sha256:", dg the hex digits (0..15), uc whether
\* the letters among the digits are capitals
HexStr(pre, dg) == [t |-> "hexstr", pre |-> pre, dg |-> dg, uc |-> FALSE]

\* the 0x + 64 lowercase hex digit string with these digits
Bytes32OfDigits(dg) ==
    IF \A i \in 1..Len(dg) : dg[i] = 0 THEN ZERO_HASH
    ELSE [t |-> "hex", zero |-> FALSE, d |-> <<-1>> \o dg, uc |-> FALSE]

\* programHashFromAny: strip a sha256: or 0x prefix
programHashFromAny(value) ==
    IF value.t = "hexstr" /\ value.pre \in {"sha256:", "0x"}
    THEN [value EXCEPT !.pre = ""] ELSE value

\* variant: the digits are padded on the right
toBytes32_PadRight(hexish) ==
    LET h1 == IF hexish.pre = "sha256:" THEN [hexish EXCEPT !.pre = "0x"] ELSE hexish
        h2 == IF h1.pre # "0x" THEN [h1 EXCEPT !.pre = "0x"] ELSE h1
        h3 == [h2 EXCEPT !.uc = FALSE]
        dg == h3.dg
        padded == IF Len(dg) < 64 THEN dg \o [i \in 1..(64 - Len(dg)) |-> 0] ELSE dg
    IN  Bytes32OfDigits(SubSeq(padded, 1, 64))

\* toBytes32: prefix with 0x, lowercase, left pad to 64 digits, cut at 64
toBytes32(hexish) ==
    LET h1 == IF hexish.pre = "sha256:" THEN [hexish EXCEPT !.pre = "0x"] ELSE hexish
        h2 == IF h1.pre # "0x" THEN [h1 EXCEPT !.pre = "0x"] ELSE h1
        h3 == [h2 EXCEPT !.uc = FALSE]
        dg == h3.dg
        padded == IF Len(dg) < 64 THEN [i \in 1..(64 - Len(dg)) |-> 0] \o dg ELSE dg
    IN  Bytes32OfDigits(SubSeq(padded, 1, 64))

\* ------------------------------------------------------------------------
\* /api/summarize (construction)
\* ------------------------------------------------------------------------
\* runZKHost: the subprocess ends with exit code 0 ("zero"), with another
\* code ("nonzero"), fails to start ("error"), or is still running when
\* the 180 s timer fires ("timeout")
runZKHost(host) == [success |-> host.exit = "zero"]

\* runRealZK: [threw, success, journalData, proofBytes].  host.files tells
\* whether the journal and proof files can be read, host.journal is the
\* journal file: [json |-> TRUE, v |-> the document] or [json |-> FALSE]
runRealZK(host) ==
    IF ~runZKHost(host).success THEN [threw |-> FALSE, success |-> FALSE]
    ELSE IF ~host.files THEN [threw |-> TRUE, success |-> FALSE]
    ELSE [threw |-> FALSE, success |-> TRUE,
          journalData |-> IF host.journal.json THEN host.journal.v
                          ELSE [raw |-> StrV("not json")],
          proofBytes |-> host.proofBytes]

\* safeAddFile: the identifier (or nothing) and the store after the upload.
\* upload is what addFile comes to: "stored"; "fallback" (the remote upload
\* failed and the bytes went to the mock store); "nohash" (the remote
\* answer carried no identifier)
safeAddFile(st, blob, upload) ==
    IF upload = "nohash" THEN [cid |-> Undef, st |-> st]
    ELSE [cid |-> computeMockCid(blob), st |-> StorePut(st, blob)]

\* variant: a failed attestation is passed off as the mock strategy
AttestationStrategy_FailedAsMock(useZk, zkMode) ==
    IF useZk
    THEN (IF zkMode = "real" THEN StrV("zk-keywords") ELSE StrV("zk-keywords-mock"))
    ELSE StrV("none")

\* useZk ? (zkMode === 'real' ? 'zk-keywords' : zkMode === 'mock' ?
\* 'zk-keywords-mock' : 'none') : 'none'
AttestationStrategy(useZk, zkMode) ==
    IF useZk
    THEN (IF zkMode = "real" THEN StrV("zk-keywords")
          ELSE IF zkMode = "mock" THEN StrV("zk-keywords-mock")
          ELSE StrV("none"))
    ELSE StrV("none")

\* the attestation part of the handler (if (useZk) { ... }): the zk fields
\* of the record, the warnings pushed and the store after the journal and
\* proof uploads.  ext.forceMock is MOCK_ZK === 'true' || !zkEnabled,
\* ext.real what the subprocess does, ext.upload what the journal and
\* proof uploads come to
Attest(st, useZk, providerOutput, ext, warnings) ==
    IF ~useZk
    THEN [programHash |-> ZERO_HASH, keywordsHash |-> ZERO_HASH, journalCid |-> StrV(""),
          proofCid |-> StrV(""), zkMode |-> "disabled", warnings |-> warnings, st |-> st]
    ELSE IF ext.forceMock
    THEN LET mock == generateMockJournal(providerOutput)
             j == safeAddFile(st, JsonBlob(mock.journalData), ext.upload)
             p == safeAddFile(j.st, RawBlob(MockProofBytes), ext.upload)
         IN  [programHash |-> mock.programHash,
              keywordsHash |-> KeywordsHash(mock.keywords),
              journalCid |-> IF Truthy(j.cid) THEN j.cid ELSE StrV(""),
              proofCid |-> IF Truthy(p.cid) THEN p.cid ELSE StrV(""),
              zkMode |-> "mock", warnings |-> warnings,
              st |-> p.st]
    ELSE LET real == runRealZK(ext.real)
             w1 == Append2(warnings, real.threw, "zk_exec_error")
         IN  IF ~real.threw /\ real.success /\ Truthy(real.journalData)
             THEN LET journal == real.journalData
                      kws == IF Truthy(Field(journal, "keywords")) THEN journal.keywords
                             ELSE ListV(<<>>)
                      ph == Field(journal, "programHash")
                      j == safeAddFile(st, JsonBlob(journal), ext.upload)
                      p == safeAddFile(j.st, RawBlob(real.proofBytes), ext.upload)
                  IN  [programHash |-> IF Truthy(ph) /\ ph # StrV("<FILLED_BY_HOST>")
                                       THEN toBytes32(programHashFromAny(ph)) ELSE ZERO_HASH,
                       keywordsHash |-> KeywordsHash(kws),
                       journalCid |-> IF Truthy(j.cid) THEN j.cid ELSE StrV(""),
                       proofCid |-> IF Truthy(p.cid) THEN p.cid ELSE StrV(""),
                       zkMode |-> "real", warnings |-> w1,
                       st |-> p.st]
             ELSE [programHash |-> ZERO_HASH, keywordsHash |-> ZERO_HASH,
                   journalCid |-> StrV(""), proofCid |-> StrV(""),
                   zkMode |-> "failed", warnings |-> Append(w1, "zk_failed"), st |-> st]

\* variant: after a failed provider call the record keeps the model asked for
ProviderSummaryData_KeepsModel(provider, text, ext) ==
    LET first == summarizeWithProvider(provider, text, ext)
    IN  IF first.ok THEN first.data
        ELSE [summarizeMock(text) EXCEPT !.model = StrV("gpt-4o-mini")]

\* try { summarizeWithProvider(...) } catch { summarizeWithProvider mock }
ProviderSummaryData(provider, text, ext) ==
    LET first == summarizeWithProvider(provider, text, ext)
    IN  IF first.ok THEN first.data ELSE summarizeMock(text)

\* POST of summarize: the response and the store it leaves.  body is the
\* request ([text, provider, useZk, params]); ext the answers of the
\* collaborators ([provider, forceMock, real, now])
SummarizePOST(st, body, ext) ==
    IF body.text.t # "text" THEN [resp |-> ErrorResponse(400), st |-> st]
    ELSE IF IsBlank(body.text.cp) THEN [resp |-> ErrorResponse(400), st |-> st]
    ELSE LET text == body.text.cp
             first == summarizeWithProvider(body.provider, text, ext.provider)
             warnings0 == Append2(<<>>, ~first.ok, "provider_failed_fallback_mock")
             providerSummaryData == ProviderSummaryData(body.provider, text, ext.provider)
             paramsHash == ParamsHash(body.params)
             promptHash == sha256Hex(text)
             providerOutput == providerSummaryData.summary
             outputHash == sha256Hex(providerOutput)
             zk == Attest(st, body.useZk, providerOutput, ext, warnings0)
             contentBlob == RawBlob(Utf8Encode(providerOutput))
             promptBlob == RawBlob(Utf8Encode(text))
             st2 == StorePut(StorePut(zk.st, contentBlob), promptBlob)
             provenance ==
                [version |-> NumV(1),
                 modelId |-> providerSummaryData.model,
                 modelHash |-> OrEmpty(providerSummaryData.modelHash),
                 promptHash |-> promptHash,
                 outputHash |-> outputHash,
                 paramsHash |-> paramsHash,
                 contentCid |-> computeMockCid(contentBlob),
                 timestamp |-> NumV(ext.now),
                 attestationStrategy |-> AttestationStrategy(body.useZk, zk.zkMode),
                 keywordsHash |-> zk.keywordsHash,
                 programHash |-> zk.programHash,
                 journalCid |-> zk.journalCid,
                 proofCid |-> zk.proofCid]
         IN  [resp |-> [kind |-> "ok",
                        provenance |-> provenance,
                        domain |-> ObjV(domain),
                        types |-> ObjV(prunedTypes),
                        providerOutput |-> TextV(providerOutput),
                        promptCid |-> computeMockCid(promptBlob),
                        zk |-> IF body.useZk
                               THEN [t |-> "zk", mode |-> zk.zkMode, journalCid |-> zk.journalCid,
                                     proofCid |-> zk.proofCid, warnings |-> zk.warnings]
                               ELSE Undef],
              st |-> st2]

\* ------------------------------------------------------------------------
\* Discovery index (api/indexStore.ts)
\* ------------------------------------------------------------------------
\* the index is the sequence of its records [hash, cids] in creation order.
\* It is a plain object (const store = {}): the keys it inherits from
\* Object.prototype read as values that are no index record
ObjectPrototypeKeys == {StrV("constructor"), StrV("__proto__")}

\* variant: a hash already recorded gets the new identifier alone
addOutputHashMapping_Replace(idx, hash, signedProvenanceCid) ==
    IF ~IsString(hash) THEN [threw |-> TRUE, idx |-> idx]
    ELSE LET h == ToLowerCase(hash) IN
    IF h \in ObjectPrototypeKeys THEN [threw |-> TRUE, idx |-> idx]
    ELSE [threw |-> FALSE,
          idx |-> IF ~\E i \in 1..Len(idx) : idx[i].hash = h
                  THEN Append(idx, [hash |-> h, cids |-> <<signedProvenanceCid>>])
                  ELSE [i \in 1..Len(idx) |->
                          IF idx[i].hash = h
                          THEN [idx[i] EXCEPT !.cids = <<signedProvenanceCid>>]
                          ELSE idx[i]]]

\* the index after the call and whether the call threw a TypeError:
\* hash.toLowerCase of a value that is no string, or store[h].cids.includes
\* of an inherited key
addOutputHashMapping(idx, hash, signedProvenanceCid) ==
    IF ~IsString(hash) THEN [threw |-> TRUE, idx |-> idx]
    ELSE LET h == ToLowerCase(hash) IN
    IF h \in ObjectPrototypeKeys THEN [threw |-> TRUE, idx |-> idx]
    ELSE [threw |-> FALSE,
          idx |-> IF ~\E i \in 1..Len(idx) : idx[i].hash = h
                  THEN Append(idx, [hash |-> h, cids |-> <<signedProvenanceCid>>])
                  ELSE [i \in 1..Len(idx) |->
                          IF idx[i].hash = h /\ signedProvenanceCid \notin Range(idx[i].cids)
                          THEN [idx[i] EXCEPT !.cids = Append(@, signedProvenanceCid)]
                          ELSE idx[i]]]

\* variant: the list of the record itself is returned
lookupByContentHash_NoCopy(idx, hash) ==
    IF ~IsString(hash) THEN [threw |-> TRUE, found |-> FALSE, cids |-> <<>>, shared |-> FALSE]
    ELSE LET h == ToLowerCase(hash) IN
    IF h \in ObjectPrototypeKeys
    THEN [threw |-> TRUE, found |-> FALSE, cids |-> <<>>, shared |-> FALSE]
    ELSE IF \E i \in 1..Len(idx) : idx[i].hash = h
    THEN [threw |-> FALSE, found |-> TRUE,
          cids |-> (CHOOSE r \in Range(idx) : r.hash = h).cids, shared |-> TRUE]
    ELSE [threw |-> FALSE, found |-> FALSE, cids |-> <<>>, shared |-> FALSE]

\* the list recorded for the hash, null when there is none (found = FALSE),
\* or a TypeError (rec.cids.slice of an inherited key); shared tells
\* whether the array returned is the array of the record, which it is not
\* after slice()
lookupByContentHash(idx, hash) ==
    IF ~IsString(hash) THEN [threw |-> TRUE, found |-> FALSE, cids |-> <<>>, shared |-> FALSE]
    ELSE LET h == ToLowerCase(hash) IN
    IF h \in ObjectPrototypeKeys
    THEN [threw |-> TRUE, found |-> FALSE, cids |-> <<>>, shared |-> FALSE]
    ELSE IF \E i \in 1..Len(idx) : idx[i].hash = h
    THEN [threw |-> FALSE, found |-> TRUE,
          cids |-> (CHOOSE r \in Range(idx) : r.hash = h).cids, shared |-> FALSE]
    ELSE [threw |-> FALSE, found |-> FALSE, cids |-> <<>>, shared |-> FALSE]

\* the index after a caller pushed x onto an array that a lookup of hash
\* returned
CallerPush(idx, hash, returned, x) ==
    IF ~returned.shared THEN idx
    ELSE [i \in 1..Len(idx) |->
            IF idx[i].hash = ToLowerCase(hash)
            THEN [idx[i] EXCEPT !.cids = Append(@, x)] ELSE idx[i]]

\* ------------------------------------------------------------------------
\* /api/publish
\* ------------------------------------------------------------------------
requiredStrings == <<"modelId", "promptHash", "outputHash", "paramsHash", "contentCid">>

\* variant: contentCid is not among the required strings
PublishRejects_NoContentCid(body) ==
    IF \/ ~Truthy(body.provenance)
       \/ ~Truthy(body.signature)
       \/ ~Truthy(body.signer) THEN TRUE
    ELSE IF Field(body.provenance, "version") # NumV(1) THEN TRUE
    ELSE \E i \in 1..(Len(requiredStrings) - 1) :
            ~Truthy(Field(body.provenance, requiredStrings[i]))

\* the early returns of the handler: does it answer 400
PublishRejects(body) ==
    IF \/ ~Truthy(body.provenance)
       \/ ~Truthy(body.signature)
       \/ ~Truthy(body.signer) THEN TRUE
    ELSE IF Field(body.provenance, "version") # NumV(1) THEN TRUE
    ELSE \E i \in 1..Len(requiredStrings) :
            ~Truthy(Field(body.provenance, requiredStrings[i]))

\* POST of publish: the response, the store and the index it leaves.
\* now is Date.now()
PublishPOST(st, idx, body, now) ==
    IF PublishRejects(body)
    THEN [resp |-> ErrorResponse(400), st |-> st, idx |-> idx]
    ELSE LET prov == body.provenance
             signedEnvelope ==
                 [domain |-> ObjV(domain),
                  types |-> ObjV(prunedTypes),
                  primaryType |-> StrV("ContentProvenance"),
                  provenance |-> prov,
                  signature |-> body.signature,
                  signer |-> body.signer,
                  createdAt |-> NumV(now),
                  promptCid |-> IF Truthy(body.promptCid) THEN body.promptCid ELSE Undef]
             blob == JsonBlob(signedEnvelope)
             signedProvenanceCid == computeMockCid(blob)
         IN  [resp |-> [kind |-> "ok",
                        signedProvenanceCid |-> signedProvenanceCid,
                        proofCid |-> Field(prov, "proofCid"),
                        journalCid |-> Field(prov, "journalCid")],
              st |-> StorePut(st, blob),
              \* try { addOutputHashMapping(...) } catch {}
              idx |-> addOutputHashMapping(idx, prov.outputHash, signedProvenanceCid).idx]

\* ------------------------------------------------------------------------
\* /api/verify-content-simple
\* ------------------------------------------------------------------------
\* the loop body skipped to the next candidate (continue, or an exception
\* caught by the try of the loop)
NextCandidate == [kind |-> "continue"]

\* one turn of the candidate loop: NextCandidate, or the response the
\* handler returns from inside the loop
SimpleCandidate(st, body, outputHash, cid) ==
    LET ej == getJson(st, cid) IN
    IF ~ej.ok THEN NextCandidate
    ELSE LET envelope == ej.v
             prov == Field(envelope, "provenance") IN
    IF ~Truthy(prov) THEN NextCandidate
    ELSE IF ~IsString(Field(prov, "outputHash")) THEN NextCandidate
    ELSE IF ToLowerCase(Field(prov, "outputHash")) # ToLowerCase(outputHash) THEN NextCandidate
    ELSE LET signature == Field(envelope, "signature")
             dom == IF Truthy(Field(envelope, "domain")) THEN Field(envelope, "domain")
                    ELSE ObjV(domain)
             tps == IF Truthy(Field(envelope, "types")) THEN Field(envelope, "types")
                    ELSE ObjV(types)
             rec == IF Truthy(signature) THEN verifyTypedData(dom, tps, prov, signature)
                    ELSE [ok |-> FALSE]
             recovered == IF rec.ok THEN rec.addr ELSE Undef
             signatureValid == rec.ok
             \* createHash().update of a value that is no string, or
             \* prov.promptHash.toLowerCase of one, throws a TypeError
             promptThrows == /\ Truthy(body.prompt)
                             /\ \/ body.prompt.t # "text"
                                \/ ~IsString(Field(prov, "promptHash"))
             promptMismatched ==
                 /\ Truthy(body.prompt)
                 /\ ToLowerCase(sha256Hex(body.prompt.cp)) # ToLowerCase(Field(prov, "promptHash"))
             strategy == Field(prov, "attestationStrategy")
             keywordsBound == /\ StartsWithZk(strategy)
                              /\ Truthy(Field(prov, "keywordsHash"))
                              /\ Field(prov, "keywordsHash") # ZERO_HASH
             claimed == Field(envelope, "signer") IN
    IF promptThrows \/ ~IsString(strategy) THEN NextCandidate
    ELSE [kind |-> "candidate",
          ok |-> signatureValid /\ ~promptMismatched,
          status |-> IF signatureValid /\ ~promptMismatched THEN "verified"
                     ELSE IF promptMismatched THEN "prompt_mismatch"
                     ELSE "invalid_signature",
          signedProvenanceCid |-> cid,
          signer |-> IF Truthy(claimed) THEN claimed ELSE recovered,
          recoveredSigner |-> recovered,
          modelId |-> Field(prov, "modelId"),
          attestation |-> strategy,
          zkKeywordsIncluded |-> keywordsBound,
          timestamp |-> Field(prov, "timestamp"),
          details |-> [promptMismatch |-> promptMismatched,
                       signatureMissing |-> ~Truthy(signature),
                       signerMismatch |-> /\ Truthy(recovered) /\ Truthy(claimed)
                                          /\ IsString(claimed)
                                          /\ ToLowerCase(recovered) # ToLowerCase(claimed)]]

\* for (const cid of candidateCids): the response of the first turn that
\* returns one, or the answer after the loop
RECURSIVE SimpleLoop(_, _, _, _)
SimpleLoop(st, body, outputHash, candidateCids) ==
    IF candidateCids = <<>>
    THEN [kind |-> "nomatch", ok |-> FALSE, reason |-> "no_valid_candidate"]
    ELSE LET turn == SimpleCandidate(st, body, outputHash, Head(candidateCids))
         IN  IF turn = NextCandidate
             THEN SimpleLoop(st, body, outputHash, Tail(candidateCids))
             ELSE turn

\* POST of verify-content-simple
VerifyContentSimplePOST(st, idx, body) ==
    IF ~Truthy(body.content) THEN ErrorResponse(400)
    ELSE IF body.content.t # "text" THEN ErrorResponse(500)
    ELSE IF IsBlank(body.content.cp) THEN ErrorResponse(400)
    ELSE LET outputHash == sha256Hex(body.content.cp)
             candidateCids == lookupByContentHash(idx, outputHash).cids IN
    IF candidateCids = <<>>
    THEN [kind |-> "nomatch", ok |-> FALSE, reason |-> "no_provenance_found"]
    ELSE SimpleLoop(st, body, outputHash, candidateCids)

\* ------------------------------------------------------------------------
\* Inputs of the model
\* ------------------------------------------------------------------------
\* "abcd"
TextAbcd == <<97, 98, 99, 100>>

\* prompts: "abcd", the same behind a byte order mark, "Aa", a blank one
Prompts == {TextAbcd, BomText \o TextAbcd, <<65, 97>>, <<32>>}

\* "BB", a provider answer whose mock CID is that of the prompt "Aa"
TextBB == <<66, 66>>

NoExt == [ok |-> FALSE]

\* a subprocess that exits with a code other than 0
NoReal == [exit |-> "nonzero", files |-> FALSE, journal |-> [json |-> FALSE], proofBytes |-> <<>>]

GoodJournal == [keywords |-> ListV(<<[word |-> TextAbcd, count |-> 1]>>),
                programHash |-> HexStr("sha256:", <<10, 11>>)]

\* a subprocess that exits with 0 and leaves a journal and a proof
GoodReal == [exit |-> "zero", files |-> TRUE, journal |-> [json |-> TRUE, v |-> GoodJournal],
             proofBytes |-> <<1>>]

\* what the subprocess may do: fail to leave its files, exit with another
\* code, succeed, succeed with the placeholder program hash, leave a
\* journal that is no JSON
RealOutcomes ==
    { [GoodReal EXCEPT !.files = FALSE],
      NoReal,
      GoodReal,
      [GoodReal EXCEPT !.journal.v.programHash = StrV("<FILLED_BY_HOST>"), !.proofBytes = <<>>],
      [GoodReal EXCEPT !.journal = [json |-> FALSE]] }

SummarizeBody(text, provider, useZk, params) ==
    [text |-> text, provider |-> provider, useZk |-> useZk, params |-> params]

ParamsV(kv) == [t |-> "params", kv |-> kv]

\* construction requests with the collaborators' answers: one plain request
\* and its variations
SummarizeInputs ==
    LET plain == SummarizeBody(TextV(TextAbcd), "mock", FALSE, Undef)
        quiet == [provider |-> NoExt, forceMock |-> TRUE, real |-> NoReal, upload |-> "stored",
                  now |-> 1]
        answer == [ok |-> TRUE, summary |-> TextBB, model |-> StrV("gpt-4o-mini"),
                   modelHash |-> StrV("sha256(gpt-4o-mini)")]
    IN  {<<[plain EXCEPT !.text = TextV(p)], quiet>> : p \in Prompts}
        \cup {<<[plain EXCEPT !.text = Undef], quiet>>}
        \cup {<<[plain EXCEPT !.provider = "openai"], [quiet EXCEPT !.provider = a]>> :
                 a \in {NoExt, answer, [answer EXCEPT !.summary = <<>>]}}
        \cup {<<[plain EXCEPT !.provider = "openai", !.text = TextV(<<65, 97>>)],
                [quiet EXCEPT !.provider = answer]>>}
        \cup {<<[plain EXCEPT !.useZk = TRUE], quiet>>}
        \cup {<<[plain EXCEPT !.useZk = TRUE], [quiet EXCEPT !.forceMock = FALSE, !.real = r]>> :
                 r \in RealOutcomes}
        \cup {<<[plain EXCEPT !.params = ParamsV(kv)], quiet>> :
                 kv \in { << <<P_top_p, 1>>, <<P_temperature, 0>> >>,
                          << <<P_max_tokens, 7>> >> }}

\* a signer that is no address
DemoUser == StrV("demo_user")

\* the record with one member dropped, emptied or respelt
RecordVariants(r) ==
    {[r EXCEPT ![f] = Undef] : f \in DOMAIN r}
    \cup {[r EXCEPT ![f] = StrV("")] : f \in Range(requiredStrings)}
    \cup {[r EXCEPT !.version = NumV(2)],
          [r EXCEPT !.outputHash = ToUpperCase(@)],
          [r EXCEPT !.programHash = ZERO_HASH],
          [r EXCEPT !.keywordsHash = ZERO_HASH],
          [r EXCEPT !.keywordsHash = IF @ = ZERO_HASH THEN @ ELSE Sha256Bytes(<<91, 93>>)],
          [r EXCEPT !.proofCid = computeMockCid(RawBlob(MockProofBytes))]}

\* what a client may send to publish after a construction answered b: the
\* honest request (the record signed by key k1 over the returned domain and
\* types, k1's address as signer, the returned promptCid), with or without
\* the promptCid, and, when varied, its variations
PublishBodies(b, varied) ==
    LET r == b.provenance
        sig == signTypedData("k1", b.domain, b.types, r)
        honest == [provenance |-> r, signature |-> sig, signer |-> AddressOf("k1"),
                   promptCid |-> b.promptCid]
    IN  IF ~varied THEN {honest, [honest EXCEPT !.promptCid = Undef]}
        ELSE
        {honest, [honest EXCEPT !.promptCid = Undef], [honest EXCEPT !.provenance = Undef]}
        \cup {[honest EXCEPT !.signer = a] :
                 a \in {ToLowerCase(AddressOf("k1")), AddressOf("k2"), DemoUser, StrV(""), Undef}}
        \cup {[honest EXCEPT !.signature = g] :
                 g \in {StrV("unsigned"), StrV("0xtest_signature_123"), StrV(""), Undef,
                        signTypedData("k2", b.domain, b.types, r)}}
        \cup {[honest EXCEPT !.signature = StrV("unsigned"), !.signer = DemoUser],
              [honest EXCEPT !.promptCid = r.contentCid]}
        \cup {[honest EXCEPT !.provenance = v,
                             !.signature = IF TypedDataHash(b.domain, b.types, v).ok
                                           THEN signTypedData("k1", b.domain, b.types, v)
                                           ELSE sig] : v \in RecordVariants(r)}

\* what the store may be made to answer instead of a blob
TamperBlobs(blob) ==
    IF blob.t = "raw"
    THEN {RawBlob(<<239, 187, 191>> \o blob.b), RawBlob(blob.b \o <<255>>),
          RawBlob(<<120>>)}
    ELSE IF "signer" \in DOMAIN blob.v
    THEN {JsonBlob([blob.v EXCEPT !.signer = a]) : a \in {AddressOf("k2"), Undef}}
         \cup {JsonBlob([blob.v EXCEPT !.signature = Undef]),
               JsonBlob([blob.v EXCEPT !.types = Undef]),
               JsonBlob([blob.v EXCEPT !.provenance.outputHash = Undef])}
    ELSE {JsonBlob([blob.v EXCEPT !.keywords = Undef]),
          JsonBlob([blob.v EXCEPT !.keywords = ListV(<<>>)])}

\* verification requests for an identifier: no prompt, the prompt of the
\* construction request, another prompt; with and without overrides
VerifyBodies(cid, prompt) ==
    [signedProvenanceCid : {cid},
     prompt : {Undef, prompt, TextV(<<120>>)},
     journalCid : {Undef, computeMockCid(RawBlob(<<7>>))},
     proofCid : {Undef, computeMockCid(RawBlob(<<8>>))},
     expectKeywords : BOOLEAN,
     includeContent : BOOLEAN]

\* ------------------------------------------------------------------------
\* The system: one process serving construction, publish and verification
\* requests over one store and one index
\* ------------------------------------------------------------------------
VARIABLES store, index, built, pub, verif, tampers, req

vars == <<store, index, built, pub, verif, tampers, req>>

\* no request is being served
Idle == [kind |-> "idle"]

None == [kind |-> "none"]

EmptyStore == [c \in {} |-> Undef]

Init ==
    /\ store = EmptyStore
    /\ index = <<>>
    /\ built = None
    /\ pub = [n |-> 0, body |-> None, resp |-> None]
    /\ verif = [body |-> None, resp |-> None, env |-> None]
    /\ tampers = 0
    /\ req = Idle

\* a client posts to /api/summarize
Summarize(body, ext) ==
    LET r == SummarizePOST(store, body, ext)
    IN  /\ built' = [body |-> body, ext |-> ext, resp |-> r.resp]
        /\ store' = r.st
        /\ UNCHANGED <<index, pub, verif, tampers, req>>

\* a client posts to /api/publish
Publish(body, now) ==
    LET r == PublishPOST(store, index, body, now)
    IN  /\ pub' = [n |-> pub.n + 1, body |-> body, resp |-> r.resp]
        /\ store' = r.st
        /\ index' = r.idx
        /\ UNCHANGED <<built, verif, tampers, req>>

\* the constructions whose publish requests are varied: the mock provider
\* on "abcd" with default parameters, without attestation or with the mock
\* attestation
Plain ==
    /\ built.body.text = TextV(TextAbcd)
    /\ built.body.provider = "mock"
    /\ built.body.params = Undef
    /\ built.body.useZk => built.ext.forceMock

\* the identifiers a verification of the published envelope may fetch
Fetched ==
    LET e == pub.resp.signedProvenanceCid.j
    IN  {pub.resp.signedProvenanceCid, Field(e.provenance, "contentCid"),
         Field(e, "promptCid"), Field(e.provenance, "journalCid")}

\* the store (a gateway, a colliding put, an expired session) answers a
\* get of cid with other bytes from now on, or no longer answers it
TamperReplace(cid, blob) ==
    /\ cid \in DOMAIN store
    /\ store' = [store EXCEPT ![cid] = blob]
    /\ tampers' = tampers + 1
    /\ UNCHANGED <<index, built, pub, verif, req>>

TamperDrop(cid) ==
    /\ cid \in DOMAIN store
    /\ store' = [c \in DOMAIN store \ {cid} |-> store[c]]
    /\ tampers' = tampers + 1
    /\ UNCHANGED <<index, built, pub, verif, req>>

\* a client posts to /api/verify-provenance
Verify(body) ==
    /\ verif' = [body |-> body,
                 resp |-> VerifyProvenance(store, body),
                 env |-> IF getJson(store, body.signedProvenanceCid).ok
                         THEN getJson(store, body.signedProvenanceCid).v ELSE None]
    /\ UNCHANGED <<store, index, built, pub, tampers, req>>

\* the requests of one run: a construction, the publication of what it
\* returned, interference of the store, and last a verification
Next ==
    \/ /\ built = None
       /\ \E in \in SummarizeInputs : Summarize(in[1], in[2])
    \/ /\ built # None /\ built.resp.kind = "ok"
       /\ pub.n = 0
       /\ \E body \in PublishBodies(built.resp, Plain) : Publish(body, 2)
    \/ /\ tampers < MaxTampers /\ verif.body = None
       /\ pub.n > 0 /\ pub.resp.kind = "ok"
       /\ \E cid \in Fetched \cap DOMAIN store :
             \E blob \in TamperBlobs(store[cid]) : TamperReplace(cid, blob)
    \/ /\ tampers < MaxTampers /\ verif.body = None
       /\ pub.n > 0 /\ pub.resp.kind = "ok"
       /\ \E cid \in Fetched \cap DOMAIN store : TamperDrop(cid)
    \/ /\ pub.n > 0 /\ pub.resp.kind = "ok" /\ verif.body = None
       /\ \E body \in VerifyBodies(pub.resp.signedProvenanceCid, built.body.text) : Verify(body)

Spec == Init /\ [][Next]_vars

\* ------------------------------------------------------------------------
\* Construction alone, over every combination of request and environment
\* ------------------------------------------------------------------------
\* what the subprocess may do, with a timeout, a failure to start and a
\* journal file that holds the JSON value null
BuildOutcomes ==
    RealOutcomes \cup { [GoodReal EXCEPT !.exit = "timeout"],
                         [GoodReal EXCEPT !.exit = "error"],
                         [GoodReal EXCEPT !.journal.v = Undef] }

BuildInputs ==
    LET answer == [ok |-> TRUE, summary |-> TextBB, model |-> StrV("gpt-4o-mini"),
                   modelHash |-> StrV("sha256(gpt-4o-mini)")]
        bodies == [text : {TextV(p) : p \in Prompts} \cup {Undef},
                   provider : {"mock", "openai"},
                   useZk : BOOLEAN,
                   params : {Undef, ParamsV(<< <<P_max_tokens, 7>> >>)}]
        exts == [provider : {NoExt, answer, [answer EXCEPT !.summary = <<>>]},
                 forceMock : BOOLEAN,
                 real : BuildOutcomes,
                 upload : {"stored", "fallback", "nohash"},
                 now : {1}]
    IN  bodies \X exts

NextBuild ==
    /\ built = None
    /\ \E in \in BuildInputs : Summarize(in[1], in[2])

SpecBuild == Init /\ [][NextBuild]_vars

\* ------------------------------------------------------------------------
\* Properties
\* ------------------------------------------------------------------------
Has(seq, x) == x \in Range(seq)

\* the verification request was answered with a report
Reported == verif.resp.kind = "report"

\* the envelope the publish request stored
Published == pub.resp.signedProvenanceCid.j

\* two signers name the same account
SameIdentity(a, b) == a = b \/ (a.t = "addr" /\ b.t = "addr" /\ a.id = b.id)

\* the publish request carried the constructed record, a signature a key
\* made over it under the returned domain and types, and that key's address
HonestPublish ==
    /\ pub.n > 0 /\ pub.resp.kind = "ok"
    /\ pub.body.provenance = built.resp.provenance
    /\ \E k \in Keys :
          /\ pub.body.signature =
                signTypedData(k, built.resp.domain, built.resp.types, built.resp.provenance)
          /\ SameIdentity(pub.body.signer, AddressOf(k))

\* the store answers the content and prompt identifiers with the bytes the
\* construction put under them
StoreFaithful ==
    /\ tampers = 0
    /\ getFile(store, built.resp.provenance.contentCid) =
          [ok |-> TRUE, blob |-> RawBlob(Utf8Encode(built.resp.providerOutput.cp))]
    /\ getFile(store, built.resp.promptCid) =
          [ok |-> TRUE, blob |-> RawBlob(Utf8Encode(built.body.text.cp))]

\* C1: a report's ok flag is true exactly when its issues list is empty;
\* warnings have no part in it
C1_OkIffNoIssues == Reported => (verif.resp.ok <=> verif.resp.issues = <<>>)

C1_Witness == Reported /\ verif.resp.ok /\ verif.resp.warnings # <<>>

\* what recovery over the fetched envelope yields, by the envelope's own
\* domain and types or the defaults
EnvelopeRecovery(e) ==
    verifyTypedData(IF Truthy(Field(e, "domain")) THEN e.domain ELSE ObjV(domain),
                    IF Truthy(Field(e, "types")) THEN e.types ELSE ObjV(types),
                    e.provenance, Field(e, "signature"))

\* C2: in a report, an envelope without signature gives missing_signature,
\* a signature from which no signer is recovered gives signature_invalid, a
\* recovered signer other than the signer the envelope claims gives
\* signature_recover_mismatch, and a report with any of the three is not ok
C2_SignatureIssues ==
    Reported =>
        LET e == verif.env
            sig == Field(e, "signature")
            rec == EnvelopeRecovery(e)
        IN  /\ ~Truthy(sig) => Has(verif.resp.issues, "missing_signature")
            /\ Truthy(sig) /\ ~rec.ok => Has(verif.resp.issues, "signature_invalid")
            /\ Truthy(sig) /\ rec.ok /\ Truthy(Field(e, "signer"))
                  /\ ~SameIdentity(e.signer, rec.addr)
               => Has(verif.resp.issues, "signature_recover_mismatch")
            /\ (\E i \in {"missing_signature", "signature_invalid",
                          "signature_recover_mismatch"} : Has(verif.resp.issues, i))
               => ~verif.resp.ok

C2_Witness ==
    /\ Reported
    /\ Field(verif.env, "signature") = Undef
    /\ verif.resp.issues = <<"missing_signature">>
    /\ ~verif.resp.ok

\* C3: an envelope published with a signature a key made over its record,
\* whose signer then names another identity, verifies with
\* signature_recover_mismatch and is not ok
C3_AlteredSignerDetected ==
    (/\ Reported
     /\ HonestPublish
     /\ verif.env = [Published EXCEPT !.signer = Field(verif.env, "signer")]
     /\ Truthy(Field(verif.env, "signer"))
     /\ ~SameIdentity(verif.env.signer, AddressOf(Published.signature.k)))
    => /\ Has(verif.resp.issues, "signature_recover_mismatch")
       /\ ~verif.resp.ok

C3_Witness ==
    /\ Reported
    /\ HonestPublish
    /\ Published.signer = AddressOf("k1")
    /\ verif.env = [Published EXCEPT !.signer = AddressOf("k2")]
    /\ verif.resp.issues = <<"signature_recover_mismatch">>

\* C4: when the store answers the content identifier of an honestly
\* published envelope with bytes other than the content, a verification
\* with includeContent reports output_hash_mismatch and is not ok
C4_TamperedContentDetected ==
    (/\ Reported
     /\ verif.body.includeContent
     /\ HonestPublish
     /\ verif.env = Published
     /\ getFile(store, Published.provenance.contentCid).ok
     /\ getFile(store, Published.provenance.contentCid).blob #
           RawBlob(Utf8Encode(built.resp.providerOutput.cp)))
    => /\ Has(verif.resp.issues, "output_hash_mismatch")
       /\ ~verif.resp.ok

\* C5: construct, sign, publish with the key's address as signer, verify
\* with includeContent and the construction prompt (keywords not demanded):
\* the report is ok with no issues, the store answering what was put
C5_RoundTripOk ==
    (/\ verif.body # None
     /\ HonestPublish
     /\ pub.body.promptCid \in {built.resp.promptCid, Undef}
     /\ StoreFaithful
     /\ verif.body.includeContent
     /\ ~verif.body.expectKeywords
     /\ verif.body.prompt = built.body.text)
    => /\ Reported
       /\ verif.resp.ok
       /\ verif.resp.issues = <<>>

\* C6: an envelope published with the signature "unsigned" verifies with
\* missing_signature and is not ok
C6_UnsignedReportsMissing ==
    (/\ Reported
     /\ pub.body.signature = StrV("unsigned")
     /\ verif.env = Published)
    => /\ Has(verif.resp.issues, "missing_signature")
       /\ ~verif.resp.ok

\* a publish request the specification accepts: version 1, the five
\* required strings, some signature and some signer
C7_Acceptable(b) ==
    /\ b.provenance # Undef
    /\ Field(b.provenance, "version") = NumV(1)
    /\ \A f \in {"modelId", "promptHash", "outputHash", "paramsHash", "contentCid"} :
          Field(b.provenance, f) \notin {Undef, StrV("")}
    /\ b.signature \notin {Undef, StrV("")}
    /\ b.signer \notin {Undef, StrV("")}

\* C7: publish accepts exactly the acceptable requests, whatever the
\* signature is worth; a rejected request leaves the store and the index as
\* they were, an accepted one stores the envelope
C7_PublishValidation ==
    [][pub'.n # pub.n =>
         LET b == pub'.body
             cid == pub'.resp.signedProvenanceCid
         IN  /\ (pub'.resp.kind = "ok") <=> C7_Acceptable(b)
             /\ ~C7_Acceptable(b) =>
                   /\ pub'.resp = ErrorResponse(400)
                   /\ store' = store
                   /\ index' = index
             /\ C7_Acceptable(b) =>
                   /\ getJson(store', cid).ok
                   /\ getJson(store', cid).v.provenance = b.provenance
                   /\ getJson(store', cid).v.signature = b.signature
                   /\ getJson(store', cid).v.signer = b.signer]_vars

C7_Witness ==
    /\ pub.n > 0
    /\ pub.resp = ErrorResponse(400)
    /\ pub.body.provenance = [built.resp.provenance EXCEPT !.contentCid = StrV("")]
    /\ pub.body.signature = signTypedData("k1", built.resp.domain, built.resp.types,
                                          pub.body.provenance)
    /\ pub.body.signer = AddressOf("k1")
    /\ index = <<>>
    /\ \A c \in DOMAIN store : store[c].t = "raw" \/ "signature" \notin DOMAIN store[c].v

\* C8: a verification ends in an error response only when the envelope
\* cannot be fetched or has no provenance; otherwise it answers a report
C8_ErrorOnlyWhenUnfetchable ==
    verif.resp.kind = "error" =>
        \/ verif.env = None
        \/ ~Truthy(Field(verif.env, "provenance"))

\* what the three deep checks find, each taken alone
ContentDiffers(e) ==
    LET f == getFile(store, Field(e.provenance, "contentCid"))
    IN  /\ Truthy(Field(e.provenance, "contentCid")) /\ f.ok
        /\ Truthy(Field(e.provenance, "outputHash"))
        /\ ToLowerCase(sha256Hex(BlobText(f.blob))) # ToLowerCase(e.provenance.outputHash)

PromptDiffers(e) ==
    LET f == getFile(store, Field(e, "promptCid"))
    IN  /\ Truthy(Field(e, "promptCid")) /\ f.ok
        /\ Truthy(Field(e.provenance, "promptHash"))
        /\ ToLowerCase(sha256Hex(BlobText(f.blob))) # ToLowerCase(e.provenance.promptHash)

JournalBound(e) ==
    /\ Truthy(Field(e.provenance, "journalCid"))
    /\ Truthy(Field(e.provenance, "keywordsHash"))
    /\ e.provenance.keywordsHash # ZERO_HASH

KeywordsDiffer(e) ==
    LET j == getJson(store, e.provenance.journalCid)
    IN  /\ JournalBound(e) /\ j.ok /\ Truthy(Field(j.v, "keywords"))
        /\ ToLowerCase(KeywordsHash(j.v.keywords)) # ToLowerCase(e.provenance.keywordsHash)

\* C9: with includeContent each of the content, stored-prompt and journal
\* checks is made and reported whatever the other two came to
C9_DeepChecksIndependent ==
    (Reported /\ verif.body.includeContent) =>
        /\ ContentDiffers(verif.env) => Has(verif.resp.issues, "output_hash_mismatch")
        /\ PromptDiffers(verif.env) => Has(verif.resp.issues, "stored_prompt_hash_mismatch")
        /\ KeywordsDiffer(verif.env) => Has(verif.resp.issues, "keywords_hash_mismatch")
        /\ JournalBound(verif.env) /\ ~getJson(store, verif.env.provenance.journalCid).ok
              => Has(verif.resp.issues, "journal_fetch_failed")

\* C10: every report on a record with a proofCid carries the warning
\* proof_unverified
C10_ProofAlwaysUnverified ==
    (Reported /\ Truthy(Field(verif.env.provenance, "proofCid")))
    => Has(verif.resp.warnings, "proof_unverified")

\* the warnings that stand for weak binding
WeakSignals == {"no_prompt_supplied", "program_hash_not_bound", "proof_unverified"}

\* C11: in every report, no prompt supplied gives no_prompt_supplied, a zk
\* strategy with the zero programHash gives program_hash_not_bound, a
\* proofCid gives proof_unverified, and none of the three is among the
\* issues
C11_WeakSignalsWarned ==
    Reported =>
        LET prov == verif.env.provenance IN
        /\ ~Truthy(verif.body.prompt) => Has(verif.resp.warnings, "no_prompt_supplied")
        /\ (StartsWithZk(Field(prov, "attestationStrategy")) /\ Field(prov, "programHash") = ZERO_HASH)
              => Has(verif.resp.warnings, "program_hash_not_bound")
        /\ Truthy(Field(prov, "proofCid")) => Has(verif.resp.warnings, "proof_unverified")
        /\ Range(verif.resp.issues) \cap WeakSignals = {}

\* C12: in a report of a deep verification of a record with bound
\* attestation, keywords_hash_mismatch is an issue exactly when the store
\* answers the journal and the digest of its keywords is not keywordsHash,
\* journal_missing_keywords exactly when it answers a journal without
\* keywords, journal_fetch_failed exactly when it does not answer
C12_JournalCheck ==
    (Reported /\ verif.body.includeContent /\ JournalBound(verif.env)) =>
        LET j == getJson(store, verif.env.provenance.journalCid) IN
        /\ Has(verif.resp.issues, "keywords_hash_mismatch") <=> KeywordsDiffer(verif.env)
        /\ Has(verif.resp.issues, "journal_missing_keywords")
              <=> (j.ok /\ ~Truthy(Field(j.v, "keywords")))
        /\ Has(verif.resp.issues, "journal_fetch_failed") <=> ~j.ok

\* two digests are the same 32 bytes, whatever the case of their digits
SameDigest(a, b) == a.t = "hex" /\ b.t = "hex" /\ a.zero = b.zero /\ a.d = b.d

Built == built # None /\ built.resp.kind = "ok"

\* the request asked for attestation and the real subprocess was run
RealRun == built.body.useZk /\ ~built.ext.forceMock

\* the subprocess exited with code 0 and a journal was read from its file
RealSucceeded ==
    /\ built.ext.real.exit = "zero"
    /\ built.ext.real.files
    /\ built.ext.real.journal.json => built.ext.real.journal.v # Undef

\* C15: in every constructed record keywordsHash and programHash are both
\* the zero sentinel with strategy 'none', or both populated with another
\* strategy
C15_HashesBothOrNeither ==
    Built =>
        LET r == built.resp.provenance IN
        \/ /\ r.keywordsHash = ZERO_HASH /\ r.programHash = ZERO_HASH
           /\ r.attestationStrategy = StrV("none")
        \/ /\ r.keywordsHash # ZERO_HASH /\ r.programHash # ZERO_HASH
           /\ r.attestationStrategy # StrV("none")

C18_FailureBindsNothing ==
    (/\ Built /\ RealRun
     /\ \/ built.ext.real.exit \in {"nonzero", "timeout"}
        \/ ~built.ext.real.journal.json)
    => LET r == built.resp.provenance IN
       /\ r.keywordsHash = ZERO_HASH /\ r.programHash = ZERO_HASH
       /\ r.journalCid = StrV("") /\ r.proofCid = StrV("")
       /\ built.resp.zk.mode = "failed"

\* C19: when the upload of the journal or the proof fails, construction
\* still answers a record and a warning of the storage failure is among
\* the warnings
C19_StorageFailureWarned ==
    (/\ built # None /\ built.body.text # Undef /\ ~IsBlank(built.body.text.cp)
     /\ built.body.useZk /\ (RealRun => RealSucceeded)
     /\ built.ext.upload # "stored")
    => /\ built.resp.kind = "ok"
       /\ \E w \in {"mock_zk_ipfs_failed", "real_zk_ipfs_failed"} :
             Has(built.resp.zk.warnings, w)

\* C20: when the provider call fails, construction answers a record built
\* from the mock summary of the text, with the mock model as modelId
C20_ProviderFallback ==
    (/\ built # None /\ built.body.text # Undef /\ ~IsBlank(built.body.text.cp)
     /\ built.body.provider # "mock" /\ ~built.ext.provider.ok)
    => /\ built.resp.kind = "ok"
       /\ built.resp.provenance.modelId = StrV("mock-local")
       /\ built.resp.providerOutput = TextV(summarizeMock(built.body.text.cp).summary)
       /\ built.resp.provenance.outputHash =
             Sha256Bytes(Utf8Encode(summarizeMock(built.body.text.cp).summary))

C20_Witness ==
    /\ Built
    /\ built.body.provider = "openai" /\ ~built.ext.provider.ok
    /\ built.resp.provenance.modelId = StrV("mock-local")
    /\ built.resp.providerOutput = TextV(KeyTopics \o TextAbcd)

\* what a verifier is given of a construction response b in store st: the
\* record, signed and published as it is, and the reports of /api/verify on
\* the published envelope, one for each choice of the request's options
VerifierView(st, b, text) ==
    LET body == [provenance |-> b.provenance,
                 signature |-> signTypedData("k1", b.domain, b.types, b.provenance),
                 signer |-> AddressOf("k1"),
                 promptCid |-> b.promptCid]
        p == PublishPOST(st, <<>>, body, 1)
        options == [prompt : {Undef, text}, expectKeywords : BOOLEAN, includeContent : BOOLEAN]
    IN  [strategy |-> b.provenance.attestationStrategy,
         reports |-> [o \in options |->
                        VerifyProvenance(p.st, [signedProvenanceCid |-> p.resp.signedProvenanceCid,
                                                prompt |-> o.prompt,
                                                journalCid |-> Undef,
                                                proofCid |-> Undef,
                                                expectKeywords |-> o.expectKeywords,
                                                includeContent |-> o.includeContent])]]

\* the answer to the request of `built` had it not asked for attestation
NeverAttempted == SummarizePOST(EmptyStore, [built.body EXCEPT !.useZk = FALSE], built.ext)

\* C17: a verifier tells a record whose attestation was attempted and
\* failed from the record of the same request without attestation: the
\* strategy field or the warnings of some verification report differ
C17_FailureVisible ==
    (Built /\ RealRun /\ ~RealSucceeded) =>
        LET failed == VerifierView(store, built.resp, built.body.text)
            never == VerifierView(NeverAttempted.st, NeverAttempted.resp, built.body.text)
        IN  \/ failed.strategy # never.strategy
            \/ \E o \in DOMAIN failed.reports :
                  failed.reports[o].warnings # never.reports[o].warnings

\* the failed attempt is told to the caller of the construction only
FailedLooksNeverAttempted ==
    (Built /\ RealRun /\ ~RealSucceeded) =>
        /\ Has(built.resp.zk.warnings, "zk_failed")
        /\ NeverAttempted.resp.zk = Undef
        /\ VerifierView(store, built.resp, built.body.text)
              = VerifierView(NeverAttempted.st, NeverAttempted.resp, built.body.text)

\* the construction request carried a text that is not blank
ValidRequest == built # None /\ built.body.text # Undef /\ ~IsBlank(built.body.text.cp)

\* the provider call of the construction failed and the mock output was used
ProviderFellBack == built.body.provider # "mock" /\ ~built.ext.provider.ok

\* the warnings list the construction response carries, empty when it
\* carries none
ReturnedWarnings == IF built.resp.zk = Undef THEN <<>> ELSE built.resp.zk.warnings

\* C21: whenever a fallback fires during construction (provider failed,
\* upload of the attestation files failed, attestation failed), the
\* warnings returned to the caller name it, whatever the request options
C21_FallbackWarned ==
    ValidRequest =>
        /\ built.resp.kind = "ok"
        /\ ProviderFellBack => Has(ReturnedWarnings, "provider_failed_fallback_mock")
        /\ (built.body.useZk /\ RealRun /\ ~RealSucceeded) => Has(ReturnedWarnings, "zk_failed")
        /\ (built.body.useZk /\ (RealRun => RealSucceeded) /\ built.ext.upload # "stored")
              => \E w \in {"mock_zk_ipfs_failed", "real_zk_ipfs_failed"} : Has(ReturnedWarnings, w)

\* ------------------------------------------------------------------------
\* Publishes one after the other within one process
\* ------------------------------------------------------------------------
\* the construction whose record is published: the mock provider on "abcd"
\* with default parameters and without attestation
BaseInput ==
    <<SummarizeBody(TextV(TextAbcd), "mock", FALSE, Undef),
      [provider |-> NoExt, forceMock |-> TRUE, real |-> NoReal,
       upload |-> "stored", now |-> 1]>>

\* publish requests for a constructed record: the record with its output
\* digest, the digest in upper case, another digest, a name every object
\* inherits, a number and the empty string, each with the signature a key
\* made over the record as construction returned it, or marked unsigned by
\* the demo user
IndexBodies(record) ==
    LET hashes == {record.outputHash, ToUpperCase(record.outputHash),
                   Sha256Bytes(<<120>>), StrV("constructor"), NumV(5), StrV("")}
        records == {[record EXCEPT !.outputHash = h] : h \in hashes}
    IN  {[provenance |-> r,
          signature |-> signTypedData("k1", ObjV(domain), ObjV(prunedTypes), record),
          signer |-> AddressOf("k1"), promptCid |-> Undef] : r \in records}
        \cup {[provenance |-> r, signature |-> StrV("unsigned"),
               signer |-> DemoUser, promptCid |-> Undef] : r \in records}

\* the hashes looked up: those of the publish requests
IndexHashes(record) == {b.provenance.outputHash : b \in IndexBodies(record)}

\* a caller looks a hash up and pushes an identifier onto the array it got
LookupAndPush(hash) ==
    LET returned == lookupByContentHash(index, hash)
    IN  /\ verif' = [body |-> [hash |-> hash], resp |-> returned, env |-> None]
        /\ index' = IF returned.found
                    THEN CallerPush(index, hash, returned, computeMockCid(RawBlob(<<7>>)))
                    ELSE index
        /\ UNCHANGED <<store, built, pub, tampers, req>>

NextIndex ==
    \/ /\ built = None
       /\ Summarize(BaseInput[1], BaseInput[2])
    \/ /\ built # None /\ verif.body = None
       /\ pub.n < MaxPublishes
       /\ \E body \in IndexBodies(built.resp.provenance) : Publish(body, 2)
    \/ /\ built # None /\ verif.body = None
       /\ \E hash \in IndexHashes(built.resp.provenance) : LookupAndPush(hash)

SpecIndex == Init /\ [][NextIndex]_vars

\* ------------------------------------------------------------------------
\* Construction over parameter mappings
\* ------------------------------------------------------------------------
\* every object with keys among frequency_penalty, max_tokens, temperature
\* and top_p and values among 0 and 1, in every insertion order
ParamMappings ==
    LET keys == {P_frequency_penalty, P_max_tokens, P_temperature, P_top_p}
        pairs == keys \X {0, 1}
    IN  {kv \in UNION {[1..n -> pairs] : n \in 0..Cardinality(keys)} :
            \A i, j \in 1..Len(kv) : i # j => kv[i][1] # kv[j][1]}

NextParams ==
    /\ built = None
    /\ \E kv \in ParamMappings :
          Summarize(SummarizeBody(TextV(TextAbcd), "mock", FALSE, ParamsV(kv)),
                    [provider |-> NoExt, forceMock |-> TRUE, real |-> NoReal,
                     upload |-> "stored", now |-> 1])

SpecParams == Init /\ [][NextParams]_vars

\* ------------------------------------------------------------------------
\* Construction over the program hashes of a journal
\* ------------------------------------------------------------------------
\* values of up to 32 bytes in hex: none to two digits among 0, 1, a and f,
\* and two of 64 digits
HashDigits ==
    UNION {[1..n -> {0, 1, 10, 15}] : n \in 0..2}
    \cup {[i \in 1..64 |-> 10], [i \in 1..64 |-> IF i = 1 THEN 0 ELSE 15]}

\* what a journal may carry as programHash: a value as raw hex, behind
\* sha256: or behind 0x, in either case of letters; the placeholder of the
\* guest; nothing
ProgramHashes ==
    ({[HexStr(pre, dg) EXCEPT !.uc = uc] :
          pre \in {"", "0x", "sha256:"}, dg \in HashDigits, uc \in BOOLEAN}
      \ {[HexStr("", <<>>) EXCEPT !.uc = uc] : uc \in BOOLEAN})
    \cup {StrV("<FILLED_BY_HOST>"), StrV(""), Undef}

NextProgram ==
    /\ built = None
    /\ \E ph \in ProgramHashes :
          Summarize(SummarizeBody(TextV(TextAbcd), "mock", TRUE, Undef),
                    [provider |-> NoExt, forceMock |-> FALSE,
                     real |-> [GoodReal EXCEPT !.journal.v.programHash = ph],
                     upload |-> "stored", now |-> 1])

SpecProgram == Init /\ [][NextProgram]_vars

\* ------------------------------------------------------------------------
\* Construction, publish and local verification within one process
\* ------------------------------------------------------------------------
\* a client posts to /api/verify-local
VerifyLocal(body) ==
    /\ verif' = [body |-> body,
                 resp |-> VerifyLocalPOST(store, body),
                 env |-> IF getJson(store, body.signedProvenanceCid).ok
                         THEN getJson(store, body.signedProvenanceCid).v ELSE None]
    /\ UNCHANGED <<store, index, built, pub, tampers, req>>

\* requests for the published identifier, for none and for an unknown one
VerifyLocalBodies ==
    [signedProvenanceCid :
        (IF pub.resp.kind = "ok" THEN {pub.resp.signedProvenanceCid} ELSE {})
        \cup {Undef, computeMockCid(RawBlob(<<7>>))},
     includeContent : BOOLEAN]

NextLocal ==
    \/ /\ built = None
       /\ \E in \in SummarizeInputs : Summarize(in[1], in[2])
    \/ /\ built # None /\ built.resp.kind = "ok"
       /\ pub.n = 0
       /\ \E body \in PublishBodies(built.resp, TRUE) : Publish(body, 2)
    \/ /\ pub.n > 0 /\ verif.body = None
       /\ \E body \in VerifyLocalBodies : VerifyLocal(body)

SpecLocal == Init /\ [][NextLocal]_vars

\* ------------------------------------------------------------------------
\* Construction, publishes and content-based verification within one process
\* ------------------------------------------------------------------------
\* a client posts to /api/verify-content-simple
VerifyContent(body) ==
    LET r == VerifyContentSimplePOST(store, index, body)
    IN  /\ verif' = [body |-> body,
                     resp |-> r,
                     env |-> IF r.kind = "candidate"
                             THEN getJson(store, r.signedProvenanceCid).v ELSE None]
        /\ UNCHANGED <<store, index, built, pub, tampers, req>>

\* publish requests for a constructed record: the honest one (signed by key
\* k1 with k1's address as signer), the same claiming the address of k2,
\* one marked unsigned by the demo user, the honest one without promptCid,
\* and one for the record without attestation strategy
ContentBodies(b) ==
    LET r == b.provenance
        honest == [provenance |-> r, signature |-> signTypedData("k1", b.domain, b.types, r),
                   signer |-> AddressOf("k1"), promptCid |-> b.promptCid]
    IN  {honest,
         [honest EXCEPT !.signer = AddressOf("k2")],
         [honest EXCEPT !.signature = StrV("unsigned"), !.signer = DemoUser],
         [honest EXCEPT !.promptCid = Undef],
         [honest EXCEPT !.provenance.attestationStrategy = Undef]}

\* requests with the constructed output, another text or none as content,
\* and no prompt, the prompt of the construction or another one
ContentRequests ==
    [content : {built.resp.providerOutput, TextV(<<120>>), Undef},
     prompt : {Undef, built.body.text, TextV(<<120>>)}]

NextContent ==
    \/ /\ built = None
       /\ Summarize(BaseInput[1], BaseInput[2])
    \/ /\ built # None /\ verif.body = None
       /\ pub.n < MaxPublishes
       /\ \E body \in ContentBodies(built.resp) : Publish(body, 2)
    \/ /\ built # None /\ verif.body = None
       /\ \E body \in ContentRequests : VerifyContent(body)

SpecContent == Init /\ [][NextContent]_vars

\* ------------------------------------------------------------------------
\* Puts one after the other into the store of one process
\* ------------------------------------------------------------------------
\* the texts "abcd", "Aa", "BB", "x", the empty file and some single bytes
PutBlobs ==
    {RawBlob(b) : b \in {TextAbcd, <<65, 97>>, TextBB, <<120>>, <<>>, <<1>>, <<7>>, <<8>>}}
    \cup {JsonBlob(GoodJournal)}

\* addFile(bytes) in mock mode
AddFile(blob) ==
    /\ store' = StorePut(store, blob)
    /\ UNCHANGED <<index, built, pub, verif, tampers, req>>

NextStore == \E blob \in PutBlobs : AddFile(blob)

SpecStore == Init /\ [][NextStore]_vars

\* ------------------------------------------------------------------------
\* A request and the external calls its handler awaits
\* ------------------------------------------------------------------------
\* req is the request being served: its options, the external call the
\* handler awaits (wait), the calls that have ended with their outcomes
\* (done) and whether the response was sent.  An external call is a fetch
\* of the provider or of the store, or the attestation subprocess; outside
\* production the store is the in-process map and is no external call.
Requests ==
    [kind : {"summarize"}, provider : {"mock", "openai"}, useZk : BOOLEAN,
     forceMock : BOOLEAN, prod : BOOLEAN]
    \cup [kind : {"verify"}, includeContent : BOOLEAN, promptCid : BOOLEAN,
          journalCid : BOOLEAN, prod : BOOLEAN]

\* whether a call of the running request has not ended in a failure
NotFailed(done, call) ==
    \A i \in 1..Len(done) : done[i][1] = call => done[i][2] = "ok"

\* the calls of POST /api/summarize in the order the handler awaits them
SummarizeCalls(r, done) ==
    (IF r.provider # "mock" THEN <<"provider">> ELSE <<>>)
    \o (IF r.useZk /\ ~r.forceMock THEN <<"subprocess">> ELSE <<>>)
    \o (IF /\ r.useZk /\ r.prod
           /\ (r.forceMock \/ NotFailed(done, "subprocess"))
        THEN <<"put_journal", "put_proof">> ELSE <<>>)
    \o (IF r.prod THEN <<"put_content", "put_prompt">> ELSE <<>>)

\* the calls of POST /api/verify: the envelope, then under includeContent
\* the content, the stored prompt and the journal; a failed fetch of the
\* envelope ends the request, one of the content or of the prompt leaves
\* the shared try block
VerifyCalls(r, done) ==
    IF ~r.prod THEN <<>>
    ELSE <<"get_envelope">>
         \o (IF r.includeContent /\ NotFailed(done, "get_envelope")
             THEN <<"get_content">>
                  \o (IF r.promptCid /\ NotFailed(done, "get_content")
                      THEN <<"get_prompt">> ELSE <<>>)
                  \o (IF /\ r.journalCid
                         /\ NotFailed(done, "get_content")
                         /\ NotFailed(done, "get_prompt")
                      THEN <<"get_journal">> ELSE <<>>)
             ELSE <<>>)

Calls(r, done) ==
    IF r.kind = "summarize" THEN SummarizeCalls(r, done) ELSE VerifyCalls(r, done)

\* the next call the handler makes, "respond" when none is left
Plan(r, done) ==
    LET calls == Calls(r, done)
    IN  IF Len(done) < Len(calls) THEN calls[Len(done) + 1] ELSE "respond"

\* the calls the code wraps in a timer that resolves to a failure value
HasTimer(call) == call = "subprocess"

Accept(r) ==
    /\ req = Idle
    /\ req' = [r |-> r, wait |-> "none", done |-> <<>>, responded |-> FALSE]
    /\ UNCHANGED <<store, index, built, pub, verif, tampers>>

Serving == req # Idle /\ ~req.responded

\* the handler reaches an await of an external call
Issue ==
    /\ Serving /\ req.wait = "none"
    /\ Plan(req.r, req.done) # "respond"
    /\ req' = [req EXCEPT !.wait = Plan(req.r, req.done)]
    /\ UNCHANGED <<store, index, built, pub, verif, tampers>>

\* the collaborator answers, with a result or an error
Answer(o) ==
    /\ Serving /\ req.wait # "none"
    /\ req' = [req EXCEPT !.wait = "none", !.done = Append(@, <<req.wait, o>>)]
    /\ UNCHANGED <<store, index, built, pub, verif, tampers>>

\* the timer of the awaited call fires
Timeout ==
    /\ Serving /\ req.wait # "none"
    /\ HasTimer(req.wait)
    /\ req' = [req EXCEPT !.wait = "none", !.done = Append(@, <<req.wait, "timeout">>)]
    /\ UNCHANGED <<store, index, built, pub, verif, tampers>>

\* the handler returns its response
Respond ==
    /\ Serving /\ req.wait = "none"
    /\ Plan(req.r, req.done) = "respond"
    /\ req' = [req EXCEPT !.responded = TRUE]
    /\ UNCHANGED <<store, index, built, pub, verif, tampers>>

NextCalls ==
    \/ \E r \in Requests : Accept(r)
    \/ Issue
    \/ \E o \in {"ok", "failed"} : Answer(o)
    \/ Timeout
    \/ Respond

\* the handler's own steps and its timers are taken when they can be; a
\* collaborator may never answer
SpecCalls ==
    /\ Init /\ [][NextCalls]_vars
    /\ WF_vars(Issue) /\ WF_vars(Timeout) /\ WF_vars(Respond)

\* C22: every external call is bounded by a timeout, so every construction
\* and verification request that is accepted is eventually answered, even
\* when a collaborator never answers
C22_EveryRequestAnswered == (req # Idle) ~> (req # Idle /\ req.responded)

\* the attestation subprocess, the one call with a timer, always ends
SubprocessBounded ==
    (req # Idle /\ req.wait = "subprocess") ~> (req # Idle /\ req.wait # "subprocess")

\* the envelopes that publishes have stored
Envelopes == {c \in DOMAIN store : store[c].t = "json" /\ "signature" \in DOMAIN store[c].v}

\* C23 as stated: after any sequence of publishes, looking up the output
\* hash of a published record answers a list that holds the identifier its
\* publish returned
C23_PublishedIsIndexed ==
    \A c \in Envelopes :
        LET found == lookupByContentHash(index, store[c].v.provenance.outputHash)
        IN  ~found.threw /\ Has(found.cids, c)

\* C23, amended: after any sequence of publishes, looking up the output
\* hash of a published record whose output hash is a hex digest answers a
\* list that holds the identifier its publish returned
C23_DigestRecordsIndexed ==
    \A c \in Envelopes :
        store[c].v.provenance.outputHash.t = "hex" =>
            LET found == lookupByContentHash(index, store[c].v.provenance.outputHash)
            IN  ~found.threw /\ Has(found.cids, c)

C23_Witness ==
    \E c, d \in Envelopes :
        /\ built # None
        /\ c # d
        /\ store[c].v.provenance.outputHash = built.resp.provenance.outputHash
        /\ store[d].v.provenance.outputHash = ToUpperCase(built.resp.provenance.outputHash)
        /\ lookupByContentHash(index, built.resp.provenance.outputHash).cids
              \in {<<c, d>>, <<d, c>>}

\* C24: stored objects are never changed in place: a put leaves every
\* identifier that an earlier put returned answering the bytes of that put
C24_NoInPlaceMutation ==
    [][\A c \in DOMAIN store :
          getFile(store', c) = [ok |-> TRUE, blob |-> store[c]]]_vars

\* the pairs of q are those of p, but for defaults that p leaves out
SameButDefaults(q, p) ==
    /\ Range(p) \subseteq Range(q)
    /\ Range(q) \ Range(p) \subseteq {<<P_temperature, 0>>, <<P_top_p, 1>>}

\* C25: the paramsHash of a constructed record is that of every mapping
\* with the same key-value pairs in another insertion order, and of every
\* mapping that spells out the defaults temperature 0 and top_p 1 which the
\* request left out
C25_ParamsHashCanonical ==
    Built =>
        \A q \in ParamMappings :
            SameButDefaults(q, built.body.params.kv) =>
                ParamsHash(ParamsV(q)) = built.resp.provenance.paramsHash

C25_Witness ==
    /\ Built
    /\ built.body.params =
          ParamsV(<< <<P_top_p, 1>>, <<P_max_tokens, 1>>, <<P_frequency_penalty, 1>> >>)
    /\ built.resp.provenance.paramsHash =
          ParamsHash(ParamsV(<< <<P_frequency_penalty, 1>>, <<P_max_tokens, 1>> >>))
    /\ built.resp.provenance.paramsHash =
          ParamsHash(ParamsV(<< <<P_max_tokens, 1>>, <<P_temperature, 0>>,
                                <<P_frequency_penalty, 1>> >>))
    /\ built.resp.provenance.paramsHash #
          ParamsHash(ParamsV(<< <<P_frequency_penalty, 1>>, <<P_max_tokens, 0>> >>))

\* the 64 hex digits after 0x of a 32-byte value the model normalised
DigitsOf(h) == IF h.zero THEN [i \in 1..64 |-> 0] ELSE Tail(h.d)

\* digits without their leading zeros: the value they denote
RECURSIVE StripZeros(_)
StripZeros(dg) ==
    IF dg # <<>> /\ Head(dg) = 0 THEN StripZeros(Tail(dg)) ELSE dg

\* the programHash the journal of the real run carried
JournalProgramHash == built.ext.real.journal.v.programHash

\* C26: the programHash bound from a journal's hex value, in any of its
\* three spellings, is 0x and exactly 64 lowercase hex digits with the same
\* value; the spellings of one value give one result; the placeholder gives
\* the all-zero sentinel
C26_ProgramHashNormalised ==
    (Built /\ RealRun /\ RealSucceeded /\ built.ext.real.journal.json) =>
        LET out == built.resp.provenance.programHash IN
        /\ JournalProgramHash = StrV("<FILLED_BY_HOST>") => out = ZERO_HASH
        /\ JournalProgramHash.t = "hexstr" =>
              /\ out.t = "hex" /\ ~out.uc
              /\ Len(DigitsOf(out)) = 64
              /\ \A i \in 1..64 : DigitsOf(out)[i] \in 0..15
              /\ StripZeros(DigitsOf(out)) = StripZeros(JournalProgramHash.dg)
              /\ \A other \in ProgramHashes :
                    (other.t = "hexstr" /\ other.dg = JournalProgramHash.dg) =>
                       toBytes32(programHashFromAny(other)) = out

C26_Witness ==
    /\ Built /\ RealRun /\ RealSucceeded
    /\ JournalProgramHash = [HexStr("sha256:", <<10, 15>>) EXCEPT !.uc = TRUE]
    /\ DigitsOf(built.resp.provenance.programHash) = [i \in 1..62 |-> 0] \o <<10, 15>>
    /\ built.resp.provenance.programHash = toBytes32(programHashFromAny(HexStr("0x", <<10, 15>>)))

\* the issues that a signature check raises
CryptoIssues == {"missing_signature", "signature_invalid", "signature_recover_mismatch"}

\* C27: in every verification report, an issue of the signature check
\* precedes every other issue of the issues list
C27_CryptoIssuesFirst ==
    Reported =>
        \A i, j \in 1..Len(verif.resp.issues) :
            (verif.resp.issues[i] \in CryptoIssues /\ verif.resp.issues[j] \notin CryptoIssues)
                => i < j

\* a value that is given and not empty
NonEmpty(v) == v \notin {Undef, StrV("")}

\* the publish request carried the constructed record with some signature
\* and signer
PublishedAsBuilt ==
    /\ pub.n > 0
    /\ pub.body.provenance = built.resp.provenance
    /\ NonEmpty(pub.body.signature) /\ NonEmpty(pub.body.signer)

ContentFetch == getFile(store, Field(verif.env.provenance, "contentCid"))

\* the verification was asked for the deep checks and answered ok
DeepOk == Reported /\ verif.body.includeContent /\ verif.resp.ok

C30_OkImpliesSignerChecked ==
    (Reported /\ verif.resp.ok) =>
        /\ verif.resp.recoveredSigner # Undef
        /\ Truthy(Field(verif.env, "signer"))
        /\ ToLowerCase(verif.resp.recoveredSigner) = ToLowerCase(Field(verif.env, "signer"))

\* the content-based verification answered from a candidate envelope
Answered == verif.resp # None /\ verif.resp.kind = "candidate"

\* C31: content-based verification answers ok and "verified" only for an
\* envelope whose recovered signer is the signer the envelope claims
C31_VerifiedImpliesClaimedSigner ==
    (Answered /\ verif.resp.ok) =>
        /\ verif.resp.status = "verified"
        /\ Truthy(verif.resp.recoveredSigner)
        /\ ToLowerCase(verif.resp.recoveredSigner) = ToLowerCase(Field(verif.env, "signer"))

\* the candidates recorded for the content of the request that are fully
\* valid: the signature recovers a signer and the prompt, when given, is
\* the prompt of the record
ValidCandidates ==
    IF verif.body = None \/ ~Truthy(verif.body.content) THEN {}
    ELSE LET outputHash == sha256Hex(verif.body.content.cp)
         IN  {c \in Range(lookupByContentHash(index, outputHash).cids) :
                 LET turn == SimpleCandidate(store, verif.body, outputHash, c)
                 IN  turn.kind = "candidate" /\ turn.ok}

\* C32: when a candidate recorded for the content is fully valid, the
\* response is ok for such a candidate, whatever invalid candidates were
\* recorded before it
C32_FirstValidPicked ==
    ValidCandidates # {} =>
        /\ Answered /\ verif.resp.ok
        /\ verif.resp.signedProvenanceCid \in ValidCandidates

\* verify-local answered with a report
LocalAnswered == verif.resp # None /\ verif.resp.kind = "local"

\* the stored signature is a typed-data signature of the stored record made
\* by the key of the signer the envelope claims
SignedByClaimedSigner(e) ==
    LET rec == verifyTypedData(Field(e, "domain"), Field(e, "types"),
                               Field(e, "provenance"), Field(e, "signature"))
    IN  /\ IsString(Field(e, "signer"))
        /\ rec.ok
        /\ ToLowerCase(rec.addr) = ToLowerCase(Field(e, "signer"))

\* C33: verify-local reports signatureValid = true only when the stored
\* signature is a valid typed-data signature of the stored record by the
\* claimed signer
C33_SignatureValidMeansSigned ==
    (LocalAnswered /\ verif.resp.signatureValid) => SignedByClaimedSigner(verif.env)

\* C34: a report of verify-local has ok = true only if its issues list is
\* empty
C34_LocalOkImpliesNoIssues ==
    (LocalAnswered /\ verif.resp.ok) => verif.resp.issues = <<>>

\* the warnings that tell of an override
OverrideWarnings == {"journalCid_override_used", "proofCid_override_used"}

\* the response to the request of verif.body without its overrides, over
\* the same store
WithoutOverrides ==
    VerifyProvenance(store, [verif.body EXCEPT !.journalCid = Undef, !.proofCid = Undef])

HoldsDigest(cid, hash) ==
    LET f == getFile(store, cid)
    IN  f.ok /\ f.blob.t = "raw" /\ Sha256Bytes(f.blob.b) = hash

\* C36: when construction returns, the store holds under contentCid bytes
\* whose digest is the outputHash of the record and, when a promptCid is
\* returned, under promptCid bytes whose digest is its promptHash
C36_StoreHoldsContentAndPrompt ==
    Built =>
        /\ HoldsDigest(built.resp.provenance.contentCid, built.resp.provenance.outputHash)
        /\ Truthy(built.resp.promptCid) =>
               HoldsDigest(built.resp.promptCid, built.resp.provenance.promptHash)

\* ------------------------------------------------------------------------
\* The hosted prover client (callHostedProver)
\* ------------------------------------------------------------------------
\* the largest PROVER_RETRIES of the model
MaxProverRetries == 6

\* PROVER_RETRIES as parseInt leaves it: a number; -1 stands for the
\* negative numbers and for NaN, with which attempt <= PROVER_RETRIES is
\* false from the start
RetriesSettings == -1..MaxProverRetries

\* Math.min(1000 * Math.pow(2, attempt), 30000), in milliseconds
getBackoffDelay(attempt) ==
    IF 1000 * 2^attempt < 30000 THEN 1000 * 2^attempt ELSE 30000

\* what response.json() may resolve to: a proof, a proof with an empty
\* output, a proof without receipt, a failure told by the prover, and a
\* value that is no object
ProverBodies ==
    {[t |-> "obj", ok |-> TRUE, output |-> StrV("out"), receipt |-> StrV("AQ==")],
     [t |-> "obj", ok |-> TRUE, output |-> StrV(""), receipt |-> StrV("AQ==")],
     [t |-> "obj", ok |-> TRUE, output |-> StrV("out"), receipt |-> Undef],
     [t |-> "obj", ok |-> FALSE, output |-> Undef, receipt |-> Undef],
     [t |-> "num", ok |-> Undef, output |-> Undef, receipt |-> Undef]}

validateProverResponse(response) ==
    /\ response.t = "obj"
    /\ response.ok \in BOOLEAN
    /\ response.ok = FALSE \/ (response.output # Undef /\ IsString(response.receipt))

\* the statements after response.json(): does the attempt return success
ProverAccepts(responseData) ==
    /\ validateProverResponse(responseData)
    /\ responseData.ok
    /\ Truthy(responseData.output) /\ Truthy(responseData.receipt)

\* a call is running
Proving == req # Idle /\ req.kind = "prover" /\ req.phase # "returned"

\* callHostedProver is called under a setting of PROVER_RETRIES
ProverCall(retries) ==
    /\ req = Idle
    /\ req' = [kind |-> "prover", retries |-> retries, attempt |-> 0, phase |-> "loop",
               requests |-> 0, waits |-> <<>>, timer |-> FALSE, accepted |-> 0,
               result |-> None]
    /\ UNCHANGED <<store, index, built, pub, verif, tampers>>

\* const response = await fetch(..., {signal}) with the abort timer set
ProverFetch(r) == [r EXCEPT !.phase = "fetch", !.requests = @ + 1, !.timer = TRUE]

\* the catch block of the loop: the last attempt breaks out of the loop to
\* the failure value, another one goes on with attempt + 1
ProverCatch(r) ==
    IF r.attempt = r.retries
    THEN [r EXCEPT !.phase = "returned", !.result = [success |-> FALSE]]
    ELSE [r EXCEPT !.phase = "loop", !.attempt = @ + 1]

\* the head of the loop: leave it when attempt <= PROVER_RETRIES is false,
\* sleep before a retry, fetch at once on the first attempt
ProverLoop ==
    /\ Proving /\ req.phase = "loop"
    /\ req' = IF ~(req.attempt <= req.retries)
              THEN [req EXCEPT !.phase = "returned", !.result = [success |-> FALSE]]
              ELSE IF req.attempt > 0 THEN [req EXCEPT !.phase = "sleep"]
              ELSE ProverFetch(req)
    /\ UNCHANGED <<store, index, built, pub, verif, tampers>>

\* the timer of sleep(delay) fires
ProverWake ==
    /\ Proving /\ req.phase = "sleep"
    /\ req' = ProverFetch([req EXCEPT !.waits = Append(@, getBackoffDelay(req.attempt - 1))])
    /\ UNCHANGED <<store, index, built, pub, verif, tampers>>

\* the prover answers the request: fetch resolves with a response whose
\* status is ok (and clearTimeout runs) or is not, or rejects
ProverHeaders(o) ==
    /\ Proving /\ req.phase = "fetch"
    /\ req' = IF o = "ok" THEN [req EXCEPT !.phase = "body", !.timer = FALSE]
              ELSE IF o = "status" THEN ProverCatch([req EXCEPT !.timer = FALSE])
              ELSE ProverCatch(req)
    /\ UNCHANGED <<store, index, built, pub, verif, tampers>>

\* the abort timer fires while the fetch is pending: fetch rejects (a timer
\* left set by a fetch that rejected aborts nothing)
ProverAbort ==
    /\ Proving /\ req.phase = "fetch" /\ req.timer
    /\ req' = ProverCatch([req EXCEPT !.timer = FALSE])
    /\ UNCHANGED <<store, index, built, pub, verif, tampers>>

\* the body of the response arrives: response.json() resolves or rejects
ProverBody(data) ==
    /\ Proving /\ req.phase = "body"
    /\ req' = IF ProverAccepts(data)
              THEN [req EXCEPT !.phase = "returned", !.accepted = @ + 1,
                               !.result = [success |-> TRUE, output |-> data.output,
                                           receipt |-> data.receipt]]
              ELSE ProverCatch(req)
    /\ UNCHANGED <<store, index, built, pub, verif, tampers>>

NextProver ==
    \/ \E retries \in RetriesSettings : ProverCall(retries)
    \/ ProverLoop
    \/ ProverWake
    \/ \E o \in {"ok", "status", "network"} : ProverHeaders(o)
    \/ ProverAbort
    \/ \E data \in ProverBodies : ProverBody(data)

\* the steps of the function and its timers are taken when they can be;
\* the prover may never answer
SpecProver ==
    /\ Init /\ [][NextProver]_vars
    /\ WF_vars(ProverLoop) /\ WF_vars(ProverWake) /\ WF_vars(ProverAbort)

\* the delays 1 s, 2 s, 4 s, ... capped at 30 s, in milliseconds
BackoffDelays == <<1000, 2000, 4000, 8000, 16000, 30000, 30000, 30000>>

\* at most PROVER_RETRIES + 1 requests, the backoff delay waited before
\* each retry, success from the first accepted response and from nothing
\* else, a failure value after the last failed attempt
ProverSafety ==
    (req # Idle /\ req.kind = "prover") =>
        /\ req.requests <= (IF req.retries < 0 THEN 0 ELSE req.retries + 1)
        /\ req.waits = SubSeq(BackoffDelays, 1, Len(req.waits))
        /\ req.phase \in {"fetch", "body"} =>
               Len(req.waits) = req.requests - 1 /\ req.requests = req.attempt + 1
        /\ req.accepted = (IF req.phase = "returned" /\ req.result.success THEN 1 ELSE 0)
        /\ (req.phase = "returned" /\ ~req.result.success) =>
               req.requests = (IF req.retries < 0 THEN 0 ELSE req.retries + 1)

\* every request in flight is ended by its response or by its timer
ProverBounded == Proving ~> ~Proving

\* C37: callHostedProver makes at most PROVER_RETRIES + 1 requests, waits
\* the backoff delay before each retry, bounds each request by the
\* configured timeout, returns success from the first attempt whose
\* response is ok with output and receipt, and after the last failed
\* attempt returns a failure value
C37_ProverRetriesBounded == []ProverSafety /\ ProverBounded

\* ------------------------------------------------------------------------
\* Fetching JSON from a list of gateways (fetchJsonFromIpfsMulti)
\* ------------------------------------------------------------------------
\* the longest list of gateways of the model
MaxGateways == 3

\* the default of the parameter maxRetries, which every caller leaves
maxRetries == 2

\* a call is running
Fetching == req # Idle /\ req.kind = "ipfs" /\ req.phase # "returned"

\* fetchJsonFromIpfsMulti is called with a list of n gateways; requests
\* counts the fetches made to each gateway and last is how the latest one
\* ended
FetchCall(n) ==
    /\ req = Idle
    /\ req' = [kind |-> "ipfs", gateways |-> n, gw |-> 1, attempt |-> 0, phase |-> "loop",
               timer |-> FALSE, errors |-> <<>>, requests |-> [k \in 1..n |-> 0],
               last |-> "none", result |-> None]
    /\ UNCHANGED <<store, index, built, pub, verif, tampers>>

\* errors.push(...) and on to the next gateway
FetchNextGateway(r, error) ==
    [r EXCEPT !.errors = Append(@, [gw |-> r.gw, error |-> error]),
              !.gw = @ + 1, !.attempt = 0, !.phase = "loop"]

\* variant: a status that is not OK is retried like a network error
FetchCatch_NoBreak(r, msg) ==
    IF r.attempt = maxRetries
    THEN FetchNextGateway([r EXCEPT !.last = msg], msg)
    ELSE [r EXCEPT !.last = msg, !.phase = "backoff"]

\* the catch block, and the break on a status that is not OK: the last
\* attempt records the error and leaves the gateway, another one waits for
\* the backoff
FetchCatch(r, msg) ==
    IF msg = "status" \/ r.attempt = maxRetries
    THEN FetchNextGateway([r EXCEPT !.last = msg], msg)
    ELSE [r EXCEPT !.last = msg, !.phase = "backoff"]

\* the heads of the two loops: return the error value when no gateway is
\* left, else fetch with the abort timer set
FetchLoop ==
    /\ Fetching /\ req.phase = "loop"
    /\ req' = IF req.gw > req.gateways
              THEN [req EXCEPT !.phase = "returned", !.result = [error |-> req.errors]]
              ELSE [req EXCEPT !.phase = "fetch", !.timer = TRUE,
                               !.requests[req.gw] = @ + 1]
    /\ UNCHANGED <<store, index, built, pub, verif, tampers>>

\* the gateway answers: fetch resolves with a status that is OK or is not,
\* or rejects; clearTimeout runs in each case
FetchHeaders(o) ==
    /\ Fetching /\ req.phase = "fetch"
    /\ req' = IF o = "ok" THEN [req EXCEPT !.phase = "body", !.timer = FALSE]
              ELSE FetchCatch([req EXCEPT !.timer = FALSE], o)
    /\ UNCHANGED <<store, index, built, pub, verif, tampers>>

\* the abort timer fires while the fetch is pending
FetchAbort ==
    /\ Fetching /\ req.phase = "fetch" /\ req.timer
    /\ req' = FetchCatch([req EXCEPT !.timer = FALSE], "timeout")
    /\ UNCHANGED <<store, index, built, pub, verif, tampers>>

\* the body arrives: res.json() resolves, and the function returns it with
\* the gateway, or rejects
FetchBody(o) ==
    /\ Fetching /\ req.phase = "body"
    /\ req' = IF o = "json"
              THEN [req EXCEPT !.phase = "returned", !.last = "ok",
                               !.result = [data |-> "json", gateway |-> req.gw]]
              ELSE FetchCatch(req, "syntax")
    /\ UNCHANGED <<store, index, built, pub, verif, tampers>>

\* the timer of the backoff fires: continue with attempt + 1
FetchBackoff ==
    /\ Fetching /\ req.phase = "backoff"
    /\ req' = [req EXCEPT !.phase = "loop", !.attempt = @ + 1]
    /\ UNCHANGED <<store, index, built, pub, verif, tampers>>

NextFetch ==
    \/ \E n \in 0..MaxGateways : FetchCall(n)
    \/ FetchLoop
    \/ \E o \in {"ok", "status", "network"} : FetchHeaders(o)
    \/ FetchAbort
    \/ \E o \in {"json", "invalid"} : FetchBody(o)
    \/ FetchBackoff

\* the steps of the function and its timers are taken when they can be; a
\* gateway may never answer
SpecFetch ==
    /\ Init /\ [][NextFetch]_vars
    /\ WF_vars(FetchLoop) /\ WF_vars(FetchAbort) /\ WF_vars(FetchBackoff)

\* a call of fetchJsonFromIpfsMulti was made
FetchCalled == req # Idle /\ req.kind = "ipfs"

\* the gateways are tried in list order, each at most maxRetries + 1
\* times, every gateway left behind has its error recorded, the data
\* returned is that of the one fetch that succeeded, and the error value
\* is returned only when every gateway failed
FetchSafety ==
    FetchCalled =>
        /\ \A k \in 1..req.gateways :
              /\ req.requests[k] <= maxRetries + 1
              /\ k > req.gw => req.requests[k] = 0
              /\ k < req.gw => /\ req.requests[k] >= 1
                               /\ req.errors[k].gw = k
                               /\ req.errors[k].error # "status"
                                     => req.requests[k] = maxRetries + 1
        /\ Len(req.errors) = (IF req.phase = "returned" /\ "data" \in DOMAIN req.result
                              THEN req.result.gateway - 1 ELSE req.gw - 1)
        /\ (req.last = "ok") = (req.phase = "returned" /\ "data" \in DOMAIN req.result)
        /\ (req.phase = "returned" /\ "error" \in DOMAIN req.result) =>
               /\ Len(req.result.error) = req.gateways
               /\ \A k \in 1..req.gateways : req.requests[k] >= 1

\* a status that is not OK ends the tries of its gateway
StatusMovesOn ==
    [][(FetchCalled /\ req.phase = "fetch" /\ req'.phase # "body" /\ req'.last = "status")
          => (req'.gw = req.gw + 1 /\ req'.phase = "loop")]_vars

\* the function waits for ever at most for the body of a response
FetchProgress == Fetching ~> (~Fetching \/ req.phase = "body")

\* C38: fetchJsonFromIpfsMulti tries the gateways in list order, moves on
\* without retry on a status that is not OK, retries a gateway at most
\* maxRetries times on a network error or timeout, returns the data of the
\* first fetch that succeeded, and when every gateway failed returns an
\* error value after a bounded number of attempts
C38_GatewaysInOrder == []FetchSafety /\ StatusMovesOn /\ FetchProgress

\* every gateway of the longest list failed, one by its status, one after
\* its last retry timed out, and the error value was returned
C38_Witness ==
    /\ FetchCalled /\ req.phase = "returned"
    /\ req.gateways = MaxGateways
    /\ "error" \in DOMAIN req.result
    /\ \E j, k \in 1..req.gateways :
          /\ req.errors[j].error = "status" /\ req.requests[j] = 2
          /\ req.errors[k].error = "timeout" /\ req.requests[k] = maxRetries + 1

\* a is the beginning of b
IsPrefix(a, b) == Len(a) <= Len(b) /\ SubSeq(b, 1, Len(a)) = a

\* the identifiers that may be recorded: those of the stored envelopes and
\* one more
IndexCids == Envelopes \cup {computeMockCid(RawBlob(<<8>>))}

\* C39: recording a pair of output hash and identifier a second time
\* leaves the index as after the first time; the list of every hash has no
\* duplicate, keeps the order of first recording, is keyed without regard
\* to case, and is not changed by a caller that changes a list it got from
\* a lookup
C39_IndexIdempotent ==
    /\ \A i, j \in 1..Len(index) : index[i].hash = index[j].hash => i = j
    /\ \A i \in 1..Len(index) :
          /\ Cardinality(Range(index[i].cids)) = Len(index[i].cids)
          /\ index[i].hash = ToLowerCase(index[i].hash)
    /\ built # None =>
          \A h \in IndexHashes(built.resp.provenance) : \A c \in IndexCids :
              LET once == addOutputHashMapping(index, h, c).idx
              IN  /\ addOutputHashMapping(once, h, c).idx = once
                  /\ addOutputHashMapping(index, ToUpperCase(h), c).idx = once
                  /\ lookupByContentHash(index, ToUpperCase(h)) = lookupByContentHash(index, h)
                  /\ IsPrefix(lookupByContentHash(index, h).cids,
                              lookupByContentHash(once, h).cids)
                  /\ ~lookupByContentHash(once, h).threw => Has(lookupByContentHash(once, h).cids, c)
    /\ verif.body # None => lookupByContentHash(index, verif.body.hash) = verif.resp

\* the same record was published three times under one identifier, which
\* the index holds once, and a caller pushed onto the list it looked up
C39_Witness ==
    /\ pub.n = MaxPublishes
    /\ Cardinality(Envelopes) = 1
    /\ Len(index) = 1 /\ Len(index[1].cids) = 1
    /\ verif.body # None /\ verif.resp.found
    /\ verif.resp.cids = index[1].cids

====
